---- MODULE Spec2Model ----
(***************************************************************************)
(* S7 DB simulator: the DB memory store (read_value / write_value over     *)
(* byte buffers), the S7 type codec it packs and unpacks with, and the     *)
(* synchronizer that bridges the working buffers and the snap7 buffers.    *)
(*                                                                         *)
(* Python values are records [k, n, b, s]: k is the Python type ("int",    *)
(* "bool", "str"), n the integer, b the boolean, s the string as a         *)
(* sequence of Unicode code points.  A PLC type tag is a record [tag, n]:  *)
(* n is the length parameter of STRING[n] / WSTRING[n] (0 for the atoms).  *)
(* A call that can raise returns [ok, ...]: ok = FALSE is the exception.   *)
(***************************************************************************)
EXTENDS Integers, Sequences, FiniteSets, TLC

\* ---------------------------------------------------------------- values

IntV(n) == [k |-> "int", n |-> n, b |-> FALSE, s |-> <<>>]
BoolV(b) == [k |-> "bool", n |-> 0, b |-> b, s |-> <<>>]
StrV(s) == [k |-> "str", n |-> 0, b |-> FALSE, s |-> s]

T(tag) == [tag |-> tag, n |-> 0]
TN(tag, n) == [tag |-> tag, n |-> n]

\* "<err>", the sentinel read_value returns
ERR == StrV(<<60, 101, 114, 114, 62>>)

\* bit=None of read_value / write_value
NoBit == -1

Min(a, b) == IF a < b THEN a ELSE b

\* Python's s[:n] for n >= 0
Prefix(s, n) == SubSeq(s, 1, Min(Len(s), n))

\* Python's data[a:b] on a sequence (0-based, clipped to the sequence)
Slice(data, a, b) == SubSeq(data, a + 1, Min(Len(data), b))

\* ------------------------------------------------- Python conversions

\* truth value of a Python object: bool, int != 0, non-empty str
Truthy(v) ==
    CASE v.k = "bool" -> v.b
      [] v.k = "int" -> v.n # 0
      [] OTHER -> Len(v.s) > 0

IsDigit(c) == c >= 48 /\ c <= 57

RECURSIVE DigitsToNat(_)
DigitsToNat(s) ==
    IF s = <<>> THEN 0
    ELSE 10 * DigitsToNat(SubSeq(s, 1, Len(s) - 1)) + (s[Len(s)] - 48)

\* int(value): ints and bools convert, a str must be an optionally signed
\* run of decimal digits, anything else raises ValueError
PyInt(v) ==
    CASE v.k = "int" -> [ok |-> TRUE, n |-> v.n]
      [] v.k = "bool" -> [ok |-> TRUE, n |-> IF v.b THEN 1 ELSE 0]
      [] OTHER ->
         LET signed == Len(v.s) > 0 /\ v.s[1] \in {43, 45}
             digits == IF signed THEN Tail(v.s) ELSE v.s
         IN  IF Len(digits) > 0 /\ \A i \in 1..Len(digits) : IsDigit(digits[i])
             THEN [ok |-> TRUE,
                   n |-> IF signed /\ v.s[1] = 45 THEN 0 - DigitsToNat(digits)
                         ELSE DigitsToNat(digits)]
             ELSE [ok |-> FALSE, n |-> 0]

RECURSIVE NatToDigits(_)
NatToDigits(n) ==
    IF n < 10 THEN <<48 + n>>
    ELSE Append(NatToDigits(n \div 10), 48 + (n % 10))

\* str(value): "True"/"False" for a bool, the decimal digits of an int
PyStr(v) ==
    CASE v.k = "str" -> v.s
      [] v.k = "bool" -> IF v.b THEN <<84, 114, 117, 101>> ELSE <<70, 97, 108, 115, 101>>
      [] OTHER -> IF v.n < 0 THEN <<45>> \o NatToDigits(0 - v.n) ELSE NatToDigits(v.n)

\* big-endian bytes of 0 <= n < 256^w
RECURSIVE BigEndian(_, _)
BigEndian(n, w) ==
    IF w = 0 THEN <<>> ELSE Append(BigEndian(n \div 256, w - 1), n % 256)

RECURSIVE FromBigEndian(_)
FromBigEndian(bytes) ==
    IF bytes = <<>> THEN 0
    ELSE 256 * FromBigEndian(SubSeq(bytes, 1, Len(bytes) - 1)) + bytes[Len(bytes)]

\* the model's integers are TLC's (32-bit signed): every one of them fits
\* '>i', so only the 16-bit formats and the sign of an unsigned one reject
InStructRange(n, bits, signed) ==
    IF bits = 16
    THEN (IF signed THEN n >= 0 - 32768 /\ n <= 32767 ELSE n >= 0 /\ n <= 65535)
    ELSE (IF signed THEN TRUE ELSE n >= 0)

\* a pack that wraps an out-of-range integer instead of raising
StructPackWrap(n, bits, signed) == [ok |-> TRUE, bytes |-> BigEndian(n, bits \div 8)]

\* struct.pack('>H' / '>h' / '>i', n): struct.error out of range; the
\* flooring \div and % of BigEndian give the two's complement of a negative n
StructPackInt(n, bits, signed) ==
    IF ~InStructRange(n, bits, signed) THEN [ok |-> FALSE, bytes |-> <<>>]
    ELSE [ok |-> TRUE, bytes |-> BigEndian(n, bits \div 8)]

\* struct.unpack of exactly bits/8 bytes: struct.error on any other length
StructUnpackInt(data, bits, signed) ==
    IF Len(data) # bits \div 8 THEN [ok |-> FALSE, n |-> 0]
    ELSE LET top == IF signed /\ data[1] >= 128 THEN data[1] - 256 ELSE data[1]
         IN  [ok |-> TRUE,
              n |-> IF bits = 16 THEN top * 256 + data[2]
                    ELSE top * 16777216 + FromBigEndian(Tail(data))]

\* str.encode('ascii'): UnicodeEncodeError on a code point above 127
EncodeAscii(s) ==
    IF \A i \in 1..Len(s) : s[i] < 128 THEN [ok |-> TRUE, bytes |-> s]
    ELSE [ok |-> FALSE, bytes |-> <<>>]

\* bytes.decode('ascii'): UnicodeDecodeError on a byte above 127
DecodeAscii(bytes) ==
    IF \A i \in 1..Len(bytes) : bytes[i] < 128 THEN [ok |-> TRUE, s |-> bytes]
    ELSE [ok |-> FALSE, s |-> <<>>]

IsSurrogate(c) == c >= 55296 /\ c <= 57343
IsHighSurrogate(c) == c >= 55296 /\ c <= 56319
IsLowSurrogate(c) == c >= 56320 /\ c <= 57343

\* the UTF-16 code units of one code point (a surrogate pair above the BMP)
CodeUnits(c) ==
    IF c < 65536 THEN <<c>>
    ELSE <<55296 + ((c - 65536) \div 1024), 56320 + ((c - 65536) % 1024)>>

RECURSIVE Utf16Units(_)
Utf16Units(s) ==
    IF s = <<>> THEN <<>> ELSE CodeUnits(Head(s)) \o Utf16Units(Tail(s))

RECURSIVE UnitsToBytes(_)
UnitsToBytes(u) ==
    IF u = <<>> THEN <<>>
    ELSE <<Head(u) \div 256, Head(u) % 256>> \o UnitsToBytes(Tail(u))

\* str.encode('utf-16be'): UnicodeEncodeError on a lone surrogate code point
EncodeUtf16be(s) ==
    IF \E i \in 1..Len(s) : IsSurrogate(s[i]) THEN [ok |-> FALSE, bytes |-> <<>>]
    ELSE [ok |-> TRUE, bytes |-> UnitsToBytes(Utf16Units(s))]

RECURSIVE BytesToUnits(_)
BytesToUnits(bytes) ==
    IF Len(bytes) < 2 THEN <<>>
    ELSE <<bytes[1] * 256 + bytes[2]>> \o BytesToUnits(SubSeq(bytes, 3, Len(bytes)))

\* the code points of a run of UTF-16 code units; ok = FALSE on a surrogate
\* that is not part of a high/low pair
RECURSIVE UnitsToPoints(_)
UnitsToPoints(u) ==
    IF u = <<>> THEN [ok |-> TRUE, s |-> <<>>]
    ELSE IF IsHighSurrogate(u[1]) THEN
        IF Len(u) >= 2 /\ IsLowSurrogate(u[2]) THEN
            LET rest == UnitsToPoints(SubSeq(u, 3, Len(u)))
            IN  [ok |-> rest.ok,
                 s |-> <<65536 + (u[1] - 55296) * 1024 + (u[2] - 56320)>> \o rest.s]
        ELSE [ok |-> FALSE, s |-> <<>>]
    ELSE IF IsLowSurrogate(u[1]) THEN [ok |-> FALSE, s |-> <<>>]
    ELSE LET rest == UnitsToPoints(Tail(u))
         IN  [ok |-> rest.ok, s |-> <<u[1]>> \o rest.s]

\* bytes.decode('utf-16be'): UnicodeDecodeError on an odd length (truncated
\* data) or an unpaired surrogate
DecodeUtf16be(bytes) ==
    IF Len(bytes) % 2 # 0 THEN [ok |-> FALSE, s |-> <<>>]
    ELSE UnitsToPoints(BytesToUnits(bytes))

\* ------------------------------------------------------- type handlers

BoolHandler_pack(value) ==
    [ok |-> TRUE, bytes |-> <<IF Truthy(value) THEN 1 ELSE 0>>]

ByteHandler_pack(value) ==
    LET i == PyInt(value)
    IN  IF i.ok THEN [ok |-> TRUE, bytes |-> <<i.n % 256>>]
        ELSE [ok |-> FALSE, bytes |-> <<>>]

\* WordHandler ('>H'), IntHandler ('>h'), DIntHandler ('>i')
IntFamily_pack(value, bits, signed) ==
    LET i == PyInt(value)
    IN  IF i.ok THEN StructPackInt(i.n, bits, signed)
        ELSE [ok |-> FALSE, bytes |-> <<>>]

\* bytes([max_len, len(s)]) raises ValueError when max_len > 255
StringHandler_pack(value, max_len) ==
    LET e == EncodeAscii(Prefix(PyStr(value), max_len))
    IN  IF ~e.ok \/ max_len > 255 THEN [ok |-> FALSE, bytes |-> <<>>]
        ELSE [ok |-> TRUE, bytes |-> <<max_len, Len(e.bytes)>> \o e.bytes]

\* s = str(value)[:max_len] cuts code points; actual_len counts code units
WStringHandler_pack(value, max_len) ==
    LET e == EncodeUtf16be(Prefix(PyStr(value), max_len))
        actual_len == Len(e.bytes) \div 2
    IN  IF ~e.ok \/ max_len > 65535 \/ actual_len > 65535
        THEN [ok |-> FALSE, bytes |-> <<>>]
        ELSE [ok |-> TRUE,
              bytes |-> BigEndian(max_len, 2) \o BigEndian(actual_len, 2) \o e.bytes]

BoolHandler_unpack(data) ==
    IF Len(data) < 1 THEN [ok |-> FALSE, val |-> ERR]
    ELSE [ok |-> TRUE, val |-> BoolV(data[1] # 0)]

ByteHandler_unpack(data) ==
    IF Len(data) < 1 THEN [ok |-> FALSE, val |-> ERR]
    ELSE [ok |-> TRUE, val |-> IntV(data[1])]

IntFamily_unpack(data, bits, signed) ==
    LET u == StructUnpackInt(Slice(data, 0, bits \div 8), bits, signed)
    IN  IF u.ok THEN [ok |-> TRUE, val |-> IntV(u.n)] ELSE [ok |-> FALSE, val |-> ERR]

StringHandler_unpack(data) ==
    IF Len(data) < 2 THEN [ok |-> FALSE, val |-> ERR]
    ELSE LET actual_len == data[2]
             d == DecodeAscii(Slice(data, 2, 2 + actual_len))
         IN  IF d.ok THEN [ok |-> TRUE, val |-> StrV(d.s)]
             ELSE [ok |-> FALSE, val |-> ERR]

WStringHandler_unpack(data) ==
    IF Len(data) < 4 THEN [ok |-> FALSE, val |-> ERR]
    ELSE LET actual_len == FromBigEndian(SubSeq(data, 3, 4))
             d == DecodeUtf16be(Slice(data, 4, 4 + actual_len * 2))
         IN  IF d.ok THEN [ok |-> TRUE, val |-> StrV(d.s)]
             ELSE [ok |-> FALSE, val |-> ERR]

\* get_type_handler and the handler's pack, for the tags BOOL, BYTE, WORD, INT,
\* DWORD, DINT, STRING[n], WSTRING[n]; a tag that is no S7 type is the KeyError
\* of PLC_TYPE_HANDLERS[type_upper].  A DWORD is modelled for the values below
\* 2^31, the integers the model has
pack_value(value, type_) ==
    CASE type_.tag = "BOOL" -> BoolHandler_pack(value)
      [] type_.tag = "BYTE" -> ByteHandler_pack(value)
      [] type_.tag = "WORD" -> IntFamily_pack(value, 16, FALSE)
      [] type_.tag = "INT" -> IntFamily_pack(value, 16, TRUE)
      [] type_.tag = "DWORD" -> IntFamily_pack(value, 32, FALSE)
      [] type_.tag = "DINT" -> IntFamily_pack(value, 32, TRUE)
      [] type_.tag = "STRING" -> StringHandler_pack(value, type_.n)
      [] type_.tag = "WSTRING" -> WStringHandler_pack(value, type_.n)
      [] OTHER -> [ok |-> FALSE, bytes |-> <<>>]

unpack_value(data, type_) ==
    CASE type_.tag = "BOOL" -> BoolHandler_unpack(data)
      [] type_.tag = "BYTE" -> ByteHandler_unpack(data)
      [] type_.tag = "WORD" -> IntFamily_unpack(data, 16, FALSE)
      [] type_.tag = "INT" -> IntFamily_unpack(data, 16, TRUE)
      [] type_.tag = "DWORD" -> IntFamily_unpack(data, 32, FALSE)
      [] type_.tag = "DINT" -> IntFamily_unpack(data, 32, TRUE)
      [] type_.tag = "STRING" -> StringHandler_unpack(data)
      [] type_.tag = "WSTRING" -> WStringHandler_unpack(data)
      [] OTHER -> [ok |-> FALSE, val |-> ERR]

\* ------------------------------------------------------------ DB store

\* the size table of read_value: every tag it does not name, BOOL included,
\* is one byte
read_size(type_) ==
    CASE type_.tag = "BYTE" -> 1
      [] type_.tag \in {"WORD", "INT"} -> 2
      [] type_.tag \in {"DWORD", "DINT", "REAL"} -> 4
      [] type_.tag = "DTL" -> 12
      [] type_.tag = "DT" -> 8
      [] type_.tag = "STRING" -> type_.n + 2
      [] type_.tag = "WSTRING" -> 2 + 2 + type_.n * 2
      [] OTHER -> 1

\* a size that forgets the width of the types: one byte per field
calculate_db_size_narrow(fields) ==
    LET ends == {fields[i].offset + 1 : i \in 1..Len(fields)} \cup {0}
    IN  CHOOSE m \in ends : \A e \in ends : e <= m

calculate_db_size(fields) ==
    LET end(f) ==
            f.offset + (CASE f.type.tag \in {"BOOL", "BYTE"} -> 1
                          [] f.type.tag \in {"WORD", "INT"} -> 2
                          [] f.type.tag \in {"DWORD", "DINT", "REAL"} -> 4
                          [] f.type.tag = "DTL" -> 12
                          [] f.type.tag = "DT" -> 8
                          [] f.type.tag = "STRING" -> f.type.n + 2
                          [] f.type.tag = "WSTRING" -> 2 + 2 + f.type.n * 2
                          [] OTHER -> 1)
        ends == {end(fields[i]) : i \in 1..Len(fields)} \cup {0}
    IN  CHOOSE m \in ends : \A e \in ends : e <= m

Pow2Bit(bit) == CASE bit = 0 -> 1 [] bit = 1 -> 2 [] bit = 2 -> 4 [] bit = 3 -> 8
                  [] bit = 4 -> 16 [] bit = 5 -> 32 [] bit = 6 -> 64 [] OTHER -> 128

\* (byte_val >> bit) & 0x01
BitOf(byte_val, bit) == (byte_val \div Pow2Bit(bit)) % 2

\* value in [True, 1, '1', 'true', 'yes']  (True == 1 in Python)
BoolBitTrue(value) ==
    \/ value.k = "bool" /\ value.b
    \/ value.k = "int" /\ value.n = 1
    \/ value.k = "str" /\ value.s \in {<<49>>, <<116, 114, 117, 101>>, <<121, 101, 115>>}

\* a bit write that stores the mask alone instead of merging it
SetBitClobber(current, bit, on) == IF on THEN Pow2Bit(bit) ELSE 0

\* current | (1 << bit)  and  current & ~(1 << bit), stored into a c_uint8
SetBit(current, bit, on) ==
    IF on THEN (IF BitOf(current, bit) = 1 THEN current ELSE current + Pow2Bit(bit))
    ELSE (IF BitOf(current, bit) = 1 THEN current - Pow2Bit(bit) ELSE current)

\* the try body of read_value on the buffers `store`: ok = FALSE is any
\* exception raised inside it (KeyError, IndexError, ValueError, codec errors)
read_body(store, db_number, offset, type_, bit) ==
    IF db_number \notin DOMAIN store THEN [ok |-> FALSE, val |-> ERR]
    ELSE LET data == store[db_number]
         IN  IF type_.tag = "BOOL" /\ bit # NoBit THEN
                 IF offset >= Len(data) THEN [ok |-> FALSE, val |-> ERR]
                 ELSE [ok |-> TRUE, val |-> BoolV(BitOf(data[offset + 1], bit) = 1)]
             ELSE IF offset + read_size(type_) > Len(data) THEN [ok |-> FALSE, val |-> ERR]
             ELSE unpack_value(Slice(data, offset, offset + read_size(type_)), type_)

\* read_value without its except clause: the exception reaches the caller
ReadUncaught(store, db_number, offset, type_, bit) ==
    LET r == read_body(store, db_number, offset, type_, bit)
    IN  [raised |-> ~r.ok, val |-> r.val]

\* a raised exception never leaves read_value: except Exception returns "<err>"
read_value(store, db_number, offset, type_, bit) ==
    LET r == read_body(store, db_number, offset, type_, bit)
    IN  [raised |-> FALSE, val |-> IF r.ok THEN r.val ELSE ERR]

\* the store loop of write_value, `for i, b in enumerate(packed):
\* data[offset + i] = b`, run to its end: the bytes that fit are stored before
\* the IndexError of the first index past the buffer
StoreLoop(data, offset, bytes) ==
    [j \in 1..Len(data) |->
        IF j > offset /\ j <= offset + Len(bytes) THEN bytes[j - offset] ELSE data[j]]

\* the buffer a whole write_value call leaves behind (used at construction,
\* where no other thread runs)
write_effect(data, offset, type_, value, bit) ==
    IF type_.tag = "BOOL" /\ bit # NoBit THEN
        IF offset >= Len(data) THEN data
        ELSE [data EXCEPT ![offset + 1] = SetBit(data[offset + 1], bit, BoolBitTrue(value))]
    ELSE LET p == pack_value(value, type_)
         IN  IF p.ok THEN StoreLoop(data, offset, p.bytes) ELSE data

\* an exception inside write_value is logged, never raised to the caller
write_except(exc) == [raised |-> FALSE, logged |-> exc]

\* ------------------------------------------------------- synchronizer

RECURSIVE SumBytes(_)
SumBytes(buffer) ==
    IF buffer = <<>> THEN 0 ELSE Head(buffer) + SumBytes(Tail(buffer))

\* (checksum + buffer[i]) & 0xFFFFFFFF: the mask changes nothing below 2^32,
\* which no buffer shorter than 16 MiB reaches
_calculate_checksum(buffer) == SumBytes(buffer)

\* a copy that stops one byte short
MemmoveShort(dst, src, n) ==
    [j \in 1..Len(dst) |-> IF j < n THEN src[j] ELSE dst[j]]

\* ctypes.memmove(dst, src, n): the first n bytes of dst become those of src
memmove(dst, src, n) ==
    [j \in 1..Len(dst) |-> IF j <= n THEN src[j] ELSE dst[j]]

\* an acquire that succeeds whoever holds the lock
AcquireAnyway(lock, t) == TRUE

\* a plain Lock: the owner's second acquire blocks like anyone else's
AcquireNotReentrant(lock, t) == lock.owner = "none"

\* threading.RLock: acquire succeeds when the lock is free or already owned
\* by the caller; self._data_lock.acquire(blocking=False) answers the same
\* question without waiting
CanAcquire(lock, t) == lock.owner = "none" \/ lock.owner = t

Acquired(lock, t) == [owner |-> t, count |-> lock.count + 1]

Released(lock) ==
    IF lock.count <= 1 THEN [owner |-> "none", count |-> 0]
    ELSE [owner |-> lock.owner, count |-> lock.count - 1]

\* --------------------------------------------------------- construction

Field(name, type_, offset, bit, has_value, value) ==
    [name |-> name, type |-> type_, offset |-> offset, bit |-> bit,
     has_value |-> has_value, value |-> value]

Zeros(n) == [j \in 1..n |-> 0]

\* __init__: every field that carries a value is written, in order
RECURSIVE InitFields(_, _)
InitFields(data, fields) ==
    IF fields = <<>> THEN data
    ELSE LET f == Head(fields)
         IN  InitFields(IF f.has_value
                        THEN write_effect(data, f.offset, f.type, f.value, f.bit)
                        ELSE data,
                        Tail(fields))

DbNumbers(defs) == {defs[i].db_number : i \in 1..Len(defs)}

\* self.db_data[db_number] is assigned once per definition, in order: the
\* buffer that stays is the one of the last definition with the number
DefOf(defs, n) ==
    defs[CHOOSE i \in 1..Len(defs) :
            /\ defs[i].db_number = n
            /\ \A k \in (i + 1)..Len(defs) : defs[k].db_number # n]

InitialData(defs) ==
    [n \in DbNumbers(defs) |->
        InitFields(Zeros(calculate_db_size(DefOf(defs, n).fields)), DefOf(defs, n).fields)]

\* -------------------------------------------------------- configuration

\* str.lower() on ASCII letters
Lower(s) == [i \in 1..Len(s) |-> IF s[i] >= 65 /\ s[i] <= 90 THEN s[i] + 32 ELSE s[i]]

\* str.upper() of an ASCII text
Upper(s) == [i \in 1..Len(s) |-> IF s[i] >= 97 /\ s[i] <= 122 THEN s[i] - 32 ELSE s[i]]

\* the text of a type tag as the source spells it
TagText(tag) ==
    CASE tag = "BOOL" -> <<66, 79, 79, 76>>
      [] tag = "BYTE" -> <<66, 89, 84, 69>>
      [] tag = "WORD" -> <<87, 79, 82, 68>>
      [] tag = "INT" -> <<73, 78, 84>>
      [] tag = "DWORD" -> <<68, 87, 79, 82, 68>>
      [] tag = "DINT" -> <<68, 73, 78, 84>>
      [] tag = "REAL" -> <<82, 69, 65, 76>>
      [] tag = "DT" -> <<68, 84>>
      [] tag = "DTL" -> <<68, 84, 76>>
      [] tag = "STRING" -> <<83, 84, 82, 73, 78, 71>>
      [] tag = "WSTRING" -> <<87, 83, 84, 82, 73, 78, 71>>
      [] tag = "LREAL" -> <<76, 82, 69, 65, 76>>
      [] OTHER -> <<67, 72, 65, 82>>

\* the set of sanity_check_config
supported_types == {"BOOL", "BYTE", "WORD", "INT", "DWORD", "DINT", "REAL", "DT", "DTL"}

\* name + "[" + str(n) + "]"
SizedText(name, n) == name \o <<91>> \o NatToDigits(n) \o <<93>>

\* re.match of ^NAME\[(\d+)\]$ : ok and group 1 as an integer.  `$` matches
\* at the end of the text and before a newline that ends it; \d is taken for
\* the ASCII digits
SizedTypeMatch(name, text) ==
    LET body == IF Len(text) > 0 /\ text[Len(text)] = 10
                THEN SubSeq(text, 1, Len(text) - 1) ELSE text
        digits == SubSeq(body, Len(name) + 2, Len(body) - 1)
        ok == /\ Len(body) >= Len(name) + 3
              /\ SubSeq(body, 1, Len(name)) = name
              /\ body[Len(name) + 1] = 91
              /\ body[Len(body)] = 93
              /\ \A i \in 1..Len(digits) : IsDigit(digits[i])
    IN  [ok |-> ok, n |-> IF ok THEN DigitsToNat(digits) ELSE 0]

\* check_type_validity: FALSE is the ValueError "Unsupported type"
check_type_validity(type_) ==
    LET type_upper == Upper(type_)
    IN  \/ \E tag \in supported_types : type_upper = TagText(tag)
        \/ SizedTypeMatch(TagText("STRING"), type_upper).ok
        \/ SizedTypeMatch(TagText("WSTRING"), type_upper).ok

\* check_offset_validity: FALSE is the ValueError "Invalid offset"
check_offset_validity(offset) == offset >= 0

\* check_value_compatibility: FALSE is the ValueError "... is not compatible
\* with type ...".  float() of a text and the date texts of DT / DTL are left
\* out: the documents of the model give values to no REAL, DT or DTL field
check_value_compatibility(type_, value) ==
    LET type_upper == Upper(type_)
        m == SizedTypeMatch(TagText("STRING"), type_upper)
        m2 == SizedTypeMatch(TagText("WSTRING"), type_upper)
    IN  CASE type_upper = TagText("BOOL") ->
               value.k = "str" =>
                   Lower(value.s) \in {<<116, 114, 117, 101>>, <<102, 97, 108, 115, 101>>,
                                       <<49>>, <<48>>, <<121, 101, 115>>, <<110, 111>>}
          [] type_upper \in {TagText(t) : t \in {"BYTE", "WORD", "INT", "DWORD", "DINT"}} ->
               PyInt(value).ok
          [] type_upper = TagText("REAL") -> value.k \in {"int", "bool"}
          [] type_upper \in {TagText("DT"), TagText("DTL")} -> FALSE
          [] OTHER ->
               /\ m.ok => (value.k = "str" /\ Len(value.s) <= m.n)
               /\ m2.ok => (value.k = "str" /\ Len(value.s) <= m2.n)

\* the loop over db['fields']; every field of a document of the model has
\* the keys name, type and offset
RECURSIVE CheckFields(_, _)
CheckFields(fields, field_names) ==
    IF fields = <<>> THEN TRUE
    ELSE LET field == Head(fields)
         IN  /\ field.name \notin field_names
             /\ check_type_validity(field.type)
             /\ check_offset_validity(field.offset)
             /\ field.has_value => check_value_compatibility(field.type, field.value)
             /\ CheckFields(Tail(fields), field_names \cup {field.name})

\* the loop over config['dbs']; every DB of a document of the model has the
\* keys db_number and fields
RECURSIVE CheckDbs(_, _)
CheckDbs(dbs, db_numbers) ==
    IF dbs = <<>> THEN TRUE
    ELSE LET db == Head(dbs)
         IN  /\ db.db_number \notin db_numbers
             /\ CheckFields(db.fields, {})
             /\ CheckDbs(Tail(dbs), db_numbers \cup {db.db_number})

\* sanity_check_config(config): ok = FALSE is the ValueError it raises.  A
\* document is [has_dbs, dbs]: has_dbs says that the root is a dictionary
\* with a list under 'dbs'
sanity_check_config(config) == [ok |-> config.has_dbs /\ CheckDbs(config.dbs, {})]

\* load_config: config['dbs'], or [] when that raises
load_config(config) == IF config.has_dbs THEN config.dbs ELSE <<>>

\* the type a field's text stands for in calculate_db_size and
\* get_type_handler: the upper-cased text is compared with the tags, and
\* int() is applied to what follows 'STRING[' or 'WSTRING[' up to the last
\* character; ok = FALSE is the ValueError of int()
TypeOf(text) ==
    LET type_upper == Upper(text)
        sized(name) == /\ Len(type_upper) > Len(name)
                       /\ SubSeq(type_upper, 1, Len(name) + 1) = name \o <<91>>
        inner(name) == SubSeq(type_upper, Len(name) + 2, Len(type_upper) - 1)
        number(name) == PyInt(StrV(inner(name)))
    IN  IF \E tag \in supported_types : type_upper = TagText(tag)
        THEN [ok |-> TRUE,
              type |-> T(CHOOSE tag \in supported_types : type_upper = TagText(tag))]
        ELSE IF sized(TagText("STRING"))
        THEN [ok |-> number(TagText("STRING")).ok,
              type |-> TN("STRING", number(TagText("STRING")).n)]
        ELSE IF sized(TagText("WSTRING"))
        THEN [ok |-> number(TagText("WSTRING")).ok,
              type |-> TN("WSTRING", number(TagText("WSTRING")).n)]
        ELSE [ok |-> TRUE, type |-> T("UNKNOWN")]

\* the definitions the simulator keeps, with each type text read as above
Definitions(dbs) ==
    [i \in 1..Len(dbs) |->
        [db_number |-> dbs[i].db_number,
         fields |-> [j \in 1..Len(dbs[i].fields) |->
                        [dbs[i].fields[j] EXCEPT !.type = TypeOf(@).type]]]]

\* int() fails on the size of a STRING / WSTRING type: __init__ raises
SizeRaises(dbs) ==
    \E i \in 1..Len(dbs) : \E j \in 1..Len(dbs[i].fields) : ~TypeOf(dbs[i].fields[j].type).ok

\* the text of a field name
NameCounter == <<67, 111, 117, 110, 116, 101, 114>>
NameFlag == <<70, 108, 97, 103>>
NameText == <<84, 101, 120, 116>>

\* the DBs the documents are made of: an INT with a value, a BOOL with bit 0
\* under the same number, a BOOL without bit, a BOOL with bit 9, a
\* lower-case string[2] next to a second field of the same name, a field of
\* a type that is no S7 type, a STRING[] without a size
DocumentDbs ==
    { [db_number |-> 1,
       fields |-> <<Field(NameCounter, TagText("INT"), 0, NoBit, TRUE, IntV(5))>>],
      [db_number |-> 1,
       fields |-> <<Field(NameFlag, TagText("BOOL"), 0, 0, TRUE, BoolV(TRUE))>>],
      [db_number |-> 2,
       fields |-> <<Field(NameFlag, TagText("BOOL"), 1, NoBit, TRUE, BoolV(TRUE))>>],
      [db_number |-> 2,
       fields |-> <<Field(NameFlag, TagText("BOOL"), 0, 9, FALSE, BoolV(FALSE))>>],
      [db_number |-> 3,
       fields |-> <<Field(NameText, Lower(SizedText(TagText("STRING"), 2)), 0, NoBit,
                          TRUE, StrV(<<97, 98>>)),
                    Field(NameText, TagText("BYTE"), 4, NoBit, FALSE, IntV(0))>>],
      [db_number |-> 3,
       fields |-> <<Field(NameText, TagText("LREAL"), 0, NoBit, FALSE, IntV(0))>>],
      [db_number |-> 4,
       fields |-> <<Field(NameText, TagText("STRING") \o <<91, 93>>, 0, NoBit,
                          FALSE, IntV(0))>>] }

NoDocument == [has_dbs |-> FALSE, dbs |-> <<>>]

\* the documents a simulator is constructed from: a root without a 'dbs'
\* list, and every list of at most two of the DBs above
Documents ==
    {NoDocument}
    \cup {[has_dbs |-> TRUE, dbs |-> dbs] :
            dbs \in UNION {[1..n -> DocumentDbs] : n \in 0..2}}

\* first letter upper case, the rest lower case
Capitalized(s) == [i \in 1..Len(s) |-> IF i = 1 THEN Upper(s)[i] ELSE Lower(s)[i]]

\* type texts: each tag and two names that are no tag in three letter
\* cases, STRING[n] and WSTRING[n] in two letter cases with n around the
\* bounds 254 and 16382, and texts that miss the pattern
TypeTexts ==
    UNION {{TagText(t), Lower(TagText(t)), Capitalized(TagText(t))} :
              t \in supported_types \cup {"LREAL", "CHAR"}}
    \cup UNION {{SizedText(TagText(t), n), Lower(SizedText(TagText(t), n))} :
                   t \in {"STRING", "WSTRING"}, n \in {0, 1, 254, 255, 16382, 16383}}
    \cup {<<>>, TagText("STRING"), TagText("STRING") \o <<91, 93>>,
          TagText("STRING") \o <<91, 49>>, TagText("STRING") \o <<91, 45, 49, 93>>,
          SizedText(TagText("STRING"), 1) \o <<10>>,
          SizedText(TagText("STRING"), 1) \o <<88>>,
          <<88>> \o SizedText(TagText("STRING"), 1),
          TagText("STRING") \o <<91, 49, 46, 53, 93>>}

\* one DB with one field of each type text
TypeDocuments ==
    {[has_dbs |-> TRUE,
      dbs |-> <<[db_number |-> 1,
                 fields |-> <<Field(NameText, text, 0, NoBit, FALSE, IntV(0))>>]>>] :
        text \in TypeTexts}

\* a Python float that is a number of seconds, held in microseconds; the
\* floats that are no number: NaN and the two infinities
Seconds(us) == [k |-> "num", us |-> us]
NaN == [k |-> "nan", us |-> 0]
PosInf == [k |-> "inf", us |-> 1]
NegInf == [k |-> "inf", us |-> 0 - 1]

\* a < b on floats: every comparison with NaN is False
FloatLess(a, b) ==
    CASE a.k = "nan" \/ b.k = "nan" -> FALSE
      [] a.k = "inf" /\ b.k = "inf" -> a.us < b.us
      [] a.k = "inf" -> a.us < 0
      [] b.k = "inf" -> b.us > 0
      [] OTHER -> a.us < b.us

\* the snap7 server before start(): no area registered
NoServer == [started |-> FALSE, areas |-> {}]

\* -------------------------------------------------------- script engine

\* timeout_ms=None of a WAIT_UNTIL without a TIMEOUT clause
NoTimeout == -1

\* one line of a script file, named by the pattern of parse_script that
\* matches it: SET, WAIT, WAIT_UNTIL, LOOP, END_LOOP, EMPTY, COMMENT; kind
\* "BAD" is a line that matches none of them.  value is the text of the line
\* after `=` or the operator, n the number of WAIT or LOOP
Line(kind, db, name, value, op, n, timeout) ==
    [kind |-> kind, db_number |-> db, variable_name |-> name, value |-> value,
     operator |-> op, n |-> n, timeout_ms |-> timeout]

SetLine(db, name, value) == Line("SET", db, name, value, "", 0, NoTimeout)
WaitLine(ms) == Line("WAIT", 0, "", <<>>, "", ms, NoTimeout)
WaitUntilLine(db, name, op, value, timeout) == Line("WAIT_UNTIL", db, name, value, op, 0, timeout)
LoopLine(count) == Line("LOOP", 0, "", <<>>, "", count, NoTimeout)
EndLoopLine == Line("END_LOOP", 0, "", <<>>, "", 0, NoTimeout)
EmptyLine == Line("EMPTY", 0, "", <<>>, "", 0, NoTimeout)
CommentLine == Line("COMMENT", 0, "", <<>>, "", 0, NoTimeout)
BadLine == Line("BAD", 0, "", <<>>, "", 0, NoTimeout)

ScriptCommand(line_number, line) == [line_number |-> line_number] @@ line

\* the for loop of parse_script from line line_num on; ok = FALSE is the
\* ScriptParseError raised, with its line number
RECURSIVE ParseLines(_, _, _, _)
ParseLines(lines, line_num, cmds, loop_stack) ==
    IF line_num > Len(lines) THEN
        IF loop_stack # <<>>
        THEN [ok |-> FALSE, commands |-> <<>>, line |-> loop_stack[Len(loop_stack)],
              reason |-> "LOOP without matching END_LOOP"]
        ELSE [ok |-> TRUE, commands |-> cmds, line |-> 0, reason |-> ""]
    ELSE LET l == lines[line_num]
         IN  CASE l.kind = "LOOP" ->
                    ParseLines(lines, line_num + 1, Append(cmds, ScriptCommand(line_num, l)),
                               Append(loop_stack, line_num))
               [] l.kind = "END_LOOP" ->
                    IF loop_stack = <<>>
                    THEN [ok |-> FALSE, commands |-> <<>>, line |-> line_num,
                          reason |-> "END_LOOP without matching LOOP"]
                    ELSE ParseLines(lines, line_num + 1,
                                    Append(cmds, ScriptCommand(line_num, l)),
                                    SubSeq(loop_stack, 1, Len(loop_stack) - 1))
               [] l.kind = "BAD" ->
                    [ok |-> FALSE, commands |-> <<>>, line |-> line_num,
                     reason |-> "Unknown command"]
               [] OTHER ->
                    ParseLines(lines, line_num + 1, Append(cmds, ScriptCommand(line_num, l)),
                               loop_stack)

\* a parser that keeps no loop stack
parse_script_unchecked(lines) ==
    IF \E i \in 1..Len(lines) : lines[i].kind = "BAD"
    THEN [ok |-> FALSE, commands |-> <<>>, line |-> 0, reason |-> "Unknown command"]
    ELSE [ok |-> TRUE, commands |-> [i \in 1..Len(lines) |-> ScriptCommand(i, lines[i])],
          line |-> 0, reason |-> ""]

parse_script(lines) == ParseLines(lines, 1, <<>>, <<>>)

\* the first field named variable_name of the first DB numbered db_number
_get_field_info(defs, db_number, variable_name) ==
    LET hits == UNION { { <<i, j>> : j \in { k \in 1..Len(defs[i].fields) :
                                                defs[i].fields[k].name = variable_name } } :
                        i \in { k \in 1..Len(defs) : defs[k].db_number = db_number } }
        first == CHOOSE h \in hits :
                    \A g \in hits : h[1] < g[1] \/ (h[1] = g[1] /\ h[2] <= g[2])
    IN  IF hits = {} THEN [found |-> FALSE, field |-> Field("", T("BYTE"), 0, NoBit, FALSE, IntV(0))]
        ELSE [found |-> TRUE, field |-> defs[first[1]].fields[first[2]]]

\* _parse_value: ok = FALSE is the ValueError of int(value_str).  float() of
\* the REAL branch is outside the model: no script of the model names a REAL
_parse_value(value_str, field_type) ==
    CASE field_type.tag = "BOOL" ->
           [ok |-> TRUE,
            val |-> BoolV(Lower(value_str) \in {<<116, 114, 117, 101>>, <<49>>, <<121, 101, 115>>})]
      [] field_type.tag \in {"BYTE", "WORD", "INT", "DWORD", "DINT"} ->
           [ok |-> PyInt(StrV(value_str)).ok, val |-> IntV(PyInt(StrV(value_str)).n)]
      [] field_type.tag = "REAL" -> [ok |-> FALSE, val |-> IntV(0)]
      [] OTHER ->
           IF Len(value_str) >= 2 /\ value_str[1] = value_str[Len(value_str)]
              /\ value_str[1] \in {34, 39}
           THEN [ok |-> TRUE, val |-> StrV(SubSeq(value_str, 2, Len(value_str) - 1))]
           ELSE [ok |-> TRUE, val |-> StrV(value_str)]

IsNumber(v) == v.k \in {"int", "bool"}

NumberOf(v) == IF v.k = "bool" THEN (IF v.b THEN 1 ELSE 0) ELSE v.n

\* Python's order on str: by code point, a proper prefix first
RECURSIVE StrLess(_, _)
StrLess(a, b) ==
    IF b = <<>> THEN FALSE
    ELSE IF a = <<>> THEN TRUE
    ELSE IF Head(a) # Head(b) THEN Head(a) < Head(b)
    ELSE StrLess(Tail(a), Tail(b))

PyEq(a, b) == IF IsNumber(a) /\ IsNumber(b) THEN NumberOf(a) = NumberOf(b) ELSE a = b

\* a < b; defined = FALSE is the TypeError of ordering a str against a number
PyLess(a, b) ==
    IF IsNumber(a) /\ IsNumber(b) THEN [defined |-> TRUE, lt |-> NumberOf(a) < NumberOf(b)]
    ELSE IF ~IsNumber(a) /\ ~IsNumber(b) THEN [defined |-> TRUE, lt |-> StrLess(a.s, b.s)]
    ELSE [defined |-> FALSE, lt |-> FALSE]

\* _compare_values: a TypeError gives False, an unknown operator gives False
_compare_values(actual, operator, expected) ==
    CASE operator = "==" -> PyEq(actual, expected)
      [] operator = "!=" -> ~PyEq(actual, expected)
      [] operator = ">" -> PyLess(expected, actual).defined /\ PyLess(expected, actual).lt
      [] operator = "<" -> PyLess(actual, expected).defined /\ PyLess(actual, expected).lt
      [] operator = ">=" -> PyLess(actual, expected).defined /\ ~PyLess(actual, expected).lt
      [] operator = "<=" -> PyLess(expected, actual).defined /\ ~PyLess(expected, actual).lt
      [] OTHER -> FALSE

\* lines 398-407: the scan for the END_LOOP that closes the LOOP at idx;
\* positions are the 0-based indices of the code
RECURSIVE ScanLoopEnd(_, _, _)
ScanLoopEnd(cmds, loop_end, loop_depth) ==
    IF loop_end < Len(cmds) /\ loop_depth > 0
    THEN ScanLoopEnd(cmds, loop_end + 1,
                     CASE cmds[loop_end + 1].kind = "LOOP" -> loop_depth + 1
                       [] cmds[loop_end + 1].kind = "END_LOOP" -> loop_depth - 1
                       [] OTHER -> loop_depth)
    ELSE [loop_end |-> loop_end, loop_depth |-> loop_depth]

FindLoopEnd(cmds, i) == ScanLoopEnd(cmds, i + 1, 1)

\* a start that checks nothing
StartAlways(is_running, cmds, simulator) == TRUE

\* lines 458-468: the three rejections of start()
StartAccepted(is_running, cmds, simulator) == ~is_running /\ cmds # <<>> /\ simulator

\* a failed command that does not end the run
NeverEndsRun(result) == FALSE

\* `if not self._execute_...(cmd): return -1`
EndsRun(result) == ~result

\* ---------------------------------------------------------------- state

VARIABLES
    db_definitions,    \* self._db_definitions: <<[db_number, fields]>>, fixed
    db_data,           \* self._db_data: db number -> working buffer
    snap7_buffers,     \* self._snap7_buffers: db number -> buffer the server serves
    snap7_checksums,   \* self._snap7_checksums
    data_lock,         \* self._data_lock: [owner, count]
    pc,                \* thread -> position inside read_value / write_value
    call,              \* thread -> arguments of the call in progress
    packed,            \* thread -> the bytes write_value is storing
    idx,               \* thread -> loop index i of the store loop
    failed,            \* thread -> an exception was caught in the call
    sync_pc,           \* position of the Snap7Sync thread
    sync_i,            \* index in db_definitions of the DB the pass is at
    current_checksum,  \* local of _sync_to_snap7_buffers
    observe,           \* which history is recorded: "bridge" or "calls"
    ext_pending,       \* db -> offsets a client changed, not yet copied inward
    int_pending,       \* db -> offsets write_value changed, not yet published
    pass_clean,        \* no write landed since the pass took the lock
    pass_dirs,         \* copy directions the pass has used
    sync_lost,         \* what the last copy of the pass discarded
    torn,              \* a write stored a strict prefix of its bytes and stopped
    entry,             \* the buffers as the call in progress found them
    last_op,           \* the last completed call and what it returned
    prev_op,           \* the completed call before it
    calls,             \* calls made so far
    commands,          \* ScriptEngine.commands
    running,           \* ScriptEngine.running
    stop_requested,    \* ScriptEngine.stop_requested, the cancel flag
    has_simulator,     \* ScriptEngine.simulator is not None
    run,               \* execution thread -> position and locals of _run_script
    ctl_pc,            \* position of the thread that calls load_script / start / stop
    hist,              \* execution thread -> what its run did and logged
    last_ctl,          \* the last load_script / start call and what it returned
    _running,          \* PLCSimulator._running, the flag of the sync loop
    halt,              \* position of the caller of PLCSimulator.stop, and what
                       \* the synchronizer did after the flag was cleared
    config,            \* the document a simulator is being constructed from
    server,            \* self.server: started or not, and the DB areas registered
    _sync_interval     \* PLCSimulator._sync_interval, a float of seconds

vars == <<db_definitions, db_data, snap7_buffers, snap7_checksums, data_lock,
          pc, call, packed, idx, failed, sync_pc, sync_i, current_checksum,
          observe, ext_pending, int_pending, pass_clean, pass_dirs, sync_lost,
          torn, entry, last_op, prev_op, calls,
          commands, running, stop_requested, has_simulator, run, ctl_pc, hist, last_ctl,
          _running, halt, config, server, _sync_interval>>

workerVars == <<pc, call, packed, idx, failed>>
syncVars == <<sync_pc, sync_i, current_checksum>>
bridgeGhost == <<ext_pending, int_pending, pass_clean, pass_dirs, sync_lost>>
callGhost == <<entry, last_op, prev_op, calls>>
engineVars == <<commands, running, stop_requested, has_simulator, run, ctl_pc, hist, last_ctl>>
lifeVars == <<_running, halt, config, server, _sync_interval>>

Threads == {"script", "inspector"}

\* calls made in a run of the call-level specification
MaxCalls == 2

\* execution threads a model run may start
MaxRuns == 2

\* 50 ms sleeps a WAIT_UNTIL counts before its poll counter saturates
MaxPolls == 3

Runs == 1..MaxRuns

\* a thread that start() has not created yet
NoRun == [pc |-> "unborn", cmds |-> <<>>, idx |-> 0, stack |-> <<>>, elapsed |-> 0,
          polls |-> 0, exc |-> FALSE]

\* what a run did: execs[i] counts how often command i passed the flag check
\* of the while loop, iters[i] the "Iteration" entries logged by LOOP i and
\* last_iter[i] the number in the latest one; cancelled: stop() set the flag
\* while the run was executing commands; late_cmds / late_iters: commands
\* that passed the check and iterations that started after that;
\* set_missing / wu_missing: commands that logged "not found"; after_missing:
\* commands begun after a WAIT_UNTIL did; timeouts: commands that logged
\* TIMEOUT; outcome: the final entry logged by _run_script; started_with:
\* self.commands when start() created the thread
NoHist == [started_with |-> <<>>,
           execs |-> <<>>, iters |-> <<>>, last_iter |-> <<>>, cancelled |-> FALSE,
           late_cmds |-> 0, late_iters |-> 0, set_missing |-> {}, wu_missing |-> {},
           after_missing |-> 0, timeouts |-> {}, outcome |-> "none"]

NoCtl == [op |-> "none", ok |-> FALSE, text |-> <<>>]

\* stop() not called yet.  pc: position of its caller; at: where the
\* synchronizer was when the flag was cleared; passes: calls of
\* _sync_to_snap7_buffers begun since then, counted up to 2
NoHalt == [pc |-> "idle", at |-> "none", passes |-> 0]

\* lines of the longest script file handed to parse_script
MaxLines == 5

\* one line of each kind that bears on LOOP / END_LOOP matching
ParseAlphabet == {LoopLine(2), EndLoopLine, WaitLine(50), BadLine}

\* every script file of at most MaxLines such lines
AllScripts == UNION { [1..n -> ParseAlphabet] : n \in 0..MaxLines }

\* positions of a thread inside _execute_commands
Executing == {"born", "while", "exec", "for", "wait", "wu"}

Req(db, offset, type_, value, bit) ==
    [db |-> db, offset |-> offset, type |-> type_, value |-> value, bit |-> bit]

NoCall == Req(0, 0, T("BYTE"), IntV(0), NoBit)

NoOp == [op |-> "none", req |-> NoCall, raised |-> FALSE, logged |-> FALSE, val |-> IntV(0)]

\* the (value, type) pairs the codec is applied to: every modelled tag with
\* the booleans, integers around the limits of each width, the documented
\* BOOL literals, and texts shorter than, as long as and longer than n, with
\* ASCII, Latin-1 and non-BMP characters
CodecTypes ==
    {T("BOOL"), T("BYTE"), T("WORD"), T("INT"), T("DWORD"), T("DINT"),
     TN("STRING", 2), TN("WSTRING", 1), TN("WSTRING", 2)}

CodecValues ==
    {BoolV(FALSE), BoolV(TRUE)}
    \cup {IntV(n) : n \in {0 - 32769, 0 - 32768, 0 - 1, 0, 1, 255, 256, 32767, 32768,
                           65535, 65536}}
    \cup {StrV(s) : s \in {<<>>, <<48>>, <<110, 111>>, <<102, 97, 108, 115, 101>>,
                           <<116, 114, 117, 101>>, <<121, 101, 115>>,
                           <<97>>, <<97, 98>>, <<97, 98, 99>>, <<233>>,
                           <<128512>>, <<128512, 97>>, <<97, 128512, 98>>}}

CodecInputs == {Req(0, 0, t, v, NoBit) : t \in CodecTypes, v \in CodecValues}

\* DBs whose fields carry initial values: integers inside and outside the
\* range of their type, a number written as text, BOOL values as booleans
\* and as the words the validator admits, a field without a value between
\* two that have one
ValueDbs ==
    { [db_number |-> 1,
       fields |-> <<Field(NameCounter, TagText("INT"), 0, NoBit, TRUE, IntV(5)),
                    Field(NameText, TagText("BYTE"), 2, NoBit, FALSE, IntV(0)),
                    Field(NameFlag, TagText("BOOL"), 3, 2, TRUE, BoolV(TRUE))>>],
      [db_number |-> 1,
       fields |-> <<Field(NameCounter, TagText("INT"), 0, NoBit, TRUE, IntV(70000))>>],
      [db_number |-> 2,
       fields |-> <<Field(NameFlag, TagText("BOOL"), 0, 1, TRUE, StrV(<<84, 82, 85, 69>>))>>],
      [db_number |-> 2,
       fields |-> <<Field(NameFlag, TagText("BOOL"), 0, NoBit, TRUE,
                          StrV(<<102, 97, 108, 115, 101>>))>>],
      [db_number |-> 2,
       fields |-> <<Field(NameFlag, TagText("BOOL"), 1, NoBit, TRUE, BoolV(TRUE)),
                    Field(NameCounter, TagText("WORD"), 2, NoBit, TRUE, StrV(<<55>>))>>],
      [db_number |-> 3,
       fields |-> <<Field(NameCounter, TagText("BYTE"), 0, NoBit, TRUE, IntV(300))>>],
      [db_number |-> 3,
       fields |-> <<Field(NameText, Lower(SizedText(TagText("STRING"), 2)), 0, NoBit,
                          TRUE, StrV(<<97, 98>>))>>],
      [db_number |-> 3,
       fields |-> <<Field(NameFlag, TagText("BOOL"), 0, 0, TRUE, StrV(<<121, 101, 115>>))>>] }

ValueDocuments ==
    {[has_dbs |-> TRUE, dbs |-> dbs] : dbs \in UNION {[1..n -> ValueDbs] : n \in 0..2}}

\* ------------------------------------------------------------ DT values

\* a datetime.datetime value
DateTime(year, month, day, hour, minute, second, microsecond) ==
    [year |-> year, month |-> month, day |-> day, hour |-> hour, minute |-> minute,
     second |-> second, microsecond |-> microsecond]

is_leap(year) == year % 4 = 0 /\ (year % 100 # 0 \/ year % 400 = 0)

\* the days of the months before month in a year that is no leap year
DaysBeforeMonth == <<0, 31, 59, 90, 120, 151, 181, 212, 243, 273, 304, 334>>

\* date.toordinal(): the days from 0001-01-01, which is day 1
toordinal(value) ==
    LET y == value.year - 1
    IN  y * 365 + (y \div 4) - (y \div 100) + (y \div 400)
        + DaysBeforeMonth[value.month]
        + (IF value.month > 2 /\ is_leap(value.year) THEN 1 ELSE 0)
        + value.day

\* date.isoweekday(): 1 = Monday ... 7 = Sunday
isoweekday(value) == IF toordinal(value) % 7 = 0 THEN 7 ELSE toordinal(value) % 7

\* to_bcd of DTHandler.pack: ((val // 10) << 4) | (val % 10); val % 10 fits
\* the four bits the shift leaves clear
to_bcd(val) == (val \div 10) * 16 + (val % 10)

\* DTHandler.pack of a datetime: the eight integers handed to bytes([...]),
\* which raises ValueError when one of them is above 255
DTHandler_pack(value) ==
    LET year == to_bcd(value.year % 100)
        month == to_bcd(value.month)
        day == to_bcd(value.day)
        hour == to_bcd(value.hour)
        minute == to_bcd(value.minute)
        second == to_bcd(value.second)
        ms == value.microsecond \div 1000
        ms_high == to_bcd(ms \div 10)
        ms_low == to_bcd(ms % 10)
        ms_byte == ms_high * 16 + ms_low
        dow == (isoweekday(value) % 7) + 1
        dow_byte == to_bcd(dow) * 16
        ints == <<year, month, day, hour, minute, second, ms_byte, dow_byte>>
    IN  IF \A i \in 1..8 : ints[i] <= 255
        THEN [ok |-> TRUE, bytes |-> ints]
        ELSE [ok |-> FALSE, bytes |-> <<>>]

\* the date-times packed: a week with a leap day in it, the turn of a
\* century, three times of day, microsecond parts around each power of ten
Dates ==
    {<<2024, 2, 26>>, <<2024, 2, 27>>, <<2024, 2, 28>>, <<2024, 2, 29>>, <<2024, 3, 1>>,
     <<2024, 3, 2>>, <<2024, 3, 3>>, <<1999, 12, 31>>, <<2000, 1, 1>>}

Times == {<<0, 0, 0>>, <<12, 34, 56>>, <<23, 59, 59>>}

Microseconds == {0, 999, 1000, 9999, 10000, 50000, 99999, 100000, 999999}

DateTimes ==
    {DateTime(d[1], d[2], d[3], t[1], t[2], t[3], us) :
        d \in Dates, t \in Times, us \in Microseconds}

\* the state __init__ leaves: buffers sized and initialised from the
\* configuration, snap7 buffers copied from them by _register_dbs with their
\* checksums, the sync thread started
InitFrom(defs, mode) ==
    /\ db_definitions = defs
    /\ db_data = InitialData(defs)
    /\ snap7_buffers = InitialData(defs)
    /\ snap7_checksums = [n \in DbNumbers(defs) |-> _calculate_checksum(InitialData(defs)[n])]
    /\ data_lock = [owner |-> "none", count |-> 0]
    /\ pc = [t \in Threads |-> "idle"]
    /\ call = [t \in Threads |-> NoCall]
    /\ packed = [t \in Threads |-> <<>>]
    /\ idx = [t \in Threads |-> 0]
    /\ failed = [t \in Threads |-> FALSE]
    /\ sync_pc = IF mode \in {"construct", "types", "values"} THEN "unborn" ELSE "loop"
    /\ sync_i = 1
    /\ current_checksum = 0
    /\ observe = mode
    /\ ext_pending = [n \in DbNumbers(defs) |-> {}]
    /\ int_pending = [n \in DbNumbers(defs) |-> {}]
    /\ pass_clean = FALSE
    /\ pass_dirs = {}
    /\ sync_lost = "none"
    /\ torn = FALSE
    /\ entry = InitialData(defs)
    /\ last_op \in (CASE mode = "codec" -> {[NoOp EXCEPT !.req = q] : q \in CodecInputs}
                      [] mode = "dt" ->
                           {[NoOp EXCEPT !.req = Req(0, 0, T("DT"), d, NoBit)] : d \in DateTimes}
                      [] OTHER -> {NoOp})
    /\ prev_op = NoOp
    /\ calls = 0
    /\ _running = (mode \notin {"construct", "types", "values"})
    /\ halt = NoHalt
    /\ config \in (CASE mode = "construct" -> Documents
                     [] mode = "types" -> TypeDocuments
                     [] mode = "values" -> ValueDocuments
                     [] OTHER -> {NoDocument})
    /\ server = IF mode \in {"construct", "types", "values"} THEN NoServer
                ELSE [started |-> TRUE, areas |-> DbNumbers(defs)]
    /\ _sync_interval = Seconds(20000)
    /\ commands = <<>>
    /\ running = FALSE
    /\ stop_requested = FALSE
    /\ has_simulator \in (IF mode \in {"engine", "ctl"} THEN BOOLEAN ELSE {TRUE})
    /\ run = [r \in Runs |-> NoRun]
    /\ ctl_pc = "idle"
    /\ hist = [r \in Runs |-> NoHist]
    /\ last_ctl \in (IF mode = "parse"
                     THEN {[op |-> "none", ok |-> FALSE, text |-> lines] : lines \in AllScripts}
                     ELSE {NoCtl})

InPass == sync_pc \in {"check", "copy", "resum", "release"}

\* ------------------------------------------------------------ write_value

\* `with self._data_lock:` entered
WriteEnter(t, req) ==
    /\ pc[t] = "idle"
    /\ CanAcquire(data_lock, t)
    /\ data_lock' = Acquired(data_lock, t)
    /\ pc' = [pc EXCEPT ![t] = "w_body"]
    /\ call' = [call EXCEPT ![t] = req]
    /\ failed' = [failed EXCEPT ![t] = FALSE]
    /\ observe = "calls" => calls < MaxCalls
    /\ entry' = IF observe = "calls" THEN db_data ELSE entry
    /\ calls' = IF observe = "calls" THEN calls + 1 ELSE calls
    /\ UNCHANGED <<db_definitions, db_data, snap7_buffers, snap7_checksums, packed, idx,
                   syncVars, observe, bridgeGhost, torn, last_op, prev_op>>
    /\ UNCHANGED engineVars
    /\ UNCHANGED lifeVars

\* lines 386-396: the buffer lookup, then the BOOL bit branch (one byte read,
\* changed and stored) or pack_value
WriteBody(t) ==
    /\ pc[t] = "w_body"
    /\ LET c == call[t]
           bitwrite == c.type.tag = "BOOL" /\ c.bit # NoBit
           known == c.db \in DOMAIN db_data
           p == pack_value(c.value, c.type)
       IN  IF ~known \/ (bitwrite /\ c.offset >= Len(db_data[c.db])) \/ (~bitwrite /\ ~p.ok)
           THEN /\ failed' = [failed EXCEPT ![t] = TRUE]
                /\ pc' = [pc EXCEPT ![t] = "w_exit"]
                /\ UNCHANGED <<db_data, packed, idx, int_pending, pass_clean, torn>>
           ELSE IF bitwrite
           THEN LET new == SetBit(db_data[c.db][c.offset + 1], c.bit, BoolBitTrue(c.value))
                IN  /\ db_data' = [db_data EXCEPT ![c.db][c.offset + 1] = new]
                    /\ int_pending' =
                         IF observe = "bridge" /\ new # db_data[c.db][c.offset + 1]
                         THEN [int_pending EXCEPT ![c.db] = @ \cup {c.offset}]
                         ELSE int_pending
                    /\ pass_clean' = FALSE
                    /\ torn' = FALSE
                    /\ pc' = [pc EXCEPT ![t] = "w_exit"]
                    /\ UNCHANGED <<packed, idx, failed>>
           ELSE /\ packed' = [packed EXCEPT ![t] = p.bytes]
                /\ idx' = [idx EXCEPT ![t] = 0]
                /\ pc' = [pc EXCEPT ![t] = "w_store"]
                /\ UNCHANGED <<db_data, failed, int_pending, pass_clean, torn>>
    /\ UNCHANGED <<db_definitions, snap7_buffers, snap7_checksums, data_lock, call,
                   syncVars, observe, ext_pending, pass_dirs, sync_lost, callGhost>>
    /\ UNCHANGED engineVars
    /\ UNCHANGED lifeVars

\* one turn of `for i, b in enumerate(packed): data[offset + i] = b`
WriteStore(t) ==
    /\ pc[t] = "w_store"
    /\ LET c == call[t]
           o == c.offset + idx[t]
       IN  IF o >= Len(db_data[c.db])
           THEN /\ failed' = [failed EXCEPT ![t] = TRUE]
                /\ pc' = [pc EXCEPT ![t] = "w_exit"]
                /\ UNCHANGED <<db_data, idx, int_pending, pass_clean, torn>>
           ELSE /\ db_data' = [db_data EXCEPT ![c.db][o + 1] = packed[t][idx[t] + 1]]
                /\ idx' = [idx EXCEPT ![t] = @ + 1]
                /\ pc' = [pc EXCEPT ![t] =
                            IF idx[t] + 1 = Len(packed[t]) THEN "w_exit" ELSE "w_store"]
                /\ int_pending' =
                     IF observe = "bridge" /\ packed[t][idx[t] + 1] # db_data[c.db][o + 1]
                     THEN [int_pending EXCEPT ![c.db] = @ \cup {o}]
                     ELSE int_pending
                /\ pass_clean' = FALSE
                /\ torn' = (idx[t] + 1 < Len(packed[t]))
                /\ UNCHANGED failed
    /\ UNCHANGED <<db_definitions, snap7_buffers, snap7_checksums, data_lock, call, packed,
                   syncVars, observe, ext_pending, pass_dirs, sync_lost, callGhost>>
    /\ UNCHANGED engineVars
    /\ UNCHANGED lifeVars

\* the except clause has logged, the with block releases the lock, the call returns
WriteExit(t) ==
    /\ pc[t] = "w_exit"
    /\ data_lock' = Released(data_lock)
    /\ pc' = [pc EXCEPT ![t] = "idle"]
    /\ IF observe = "calls"
       THEN /\ last_op' = [op |-> "write", req |-> call[t],
                           raised |-> write_except(failed[t]).raised,
                           logged |-> write_except(failed[t]).logged, val |-> IntV(0)]
            /\ prev_op' = last_op
       ELSE UNCHANGED <<last_op, prev_op>>
    /\ call' = [call EXCEPT ![t] = NoCall]
    /\ packed' = [packed EXCEPT ![t] = <<>>]
    /\ idx' = [idx EXCEPT ![t] = 0]
    /\ failed' = [failed EXCEPT ![t] = FALSE]
    /\ UNCHANGED <<db_definitions, db_data, snap7_buffers, snap7_checksums,
                   syncVars, observe, bridgeGhost, torn, entry, calls>>
    /\ UNCHANGED engineVars
    /\ UNCHANGED lifeVars

\* ------------------------------------------------------------- read_value

ReadEnter(t, req) ==
    /\ pc[t] = "idle"
    /\ CanAcquire(data_lock, t)
    /\ data_lock' = Acquired(data_lock, t)
    /\ pc' = [pc EXCEPT ![t] = "r_body"]
    /\ call' = [call EXCEPT ![t] = req]
    /\ observe = "calls" => calls < MaxCalls
    /\ entry' = IF observe = "calls" THEN db_data ELSE entry
    /\ calls' = IF observe = "calls" THEN calls + 1 ELSE calls
    /\ UNCHANGED <<db_definitions, db_data, snap7_buffers, snap7_checksums, packed, idx, failed,
                   syncVars, observe, bridgeGhost, torn, last_op, prev_op>>
    /\ UNCHANGED engineVars
    /\ UNCHANGED lifeVars

\* the try body runs under the lock, the with block releases it, the value
\* (or "<err>") is returned
ReadReturn(t) ==
    /\ pc[t] = "r_body"
    /\ data_lock' = Released(data_lock)
    /\ pc' = [pc EXCEPT ![t] = "idle"]
    /\ LET c == call[t]
           r == read_value(db_data, c.db, c.offset, c.type, c.bit)
       IN  IF observe = "calls"
           THEN /\ last_op' = [op |-> "read", req |-> c, raised |-> r.raised,
                               logged |-> FALSE, val |-> r.val]
                /\ prev_op' = last_op
           ELSE UNCHANGED <<last_op, prev_op>>
    /\ call' = [call EXCEPT ![t] = NoCall]
    /\ UNCHANGED <<db_definitions, db_data, snap7_buffers, snap7_checksums, packed, idx,
                   failed, syncVars, observe, bridgeGhost, torn, entry, calls>>
    /\ UNCHANGED engineVars
    /\ UNCHANGED lifeVars

\* ------------------------------------------------ _sync_to_snap7_buffers

SyncDb == db_definitions[sync_i].db_number

\* line 223: acquire(blocking=False) succeeded, the pass starts
SyncAcquire ==
    /\ sync_pc = "tick"
    /\ CanAcquire(data_lock, "sync")
    /\ data_lock' = Acquired(data_lock, "sync")
    /\ sync_i' = 1
    /\ sync_pc' = IF Len(db_definitions) = 0 THEN "release" ELSE "check"
    /\ pass_clean' = TRUE
    /\ pass_dirs' = {}
    /\ sync_lost' = "none"
    /\ UNCHANGED <<db_definitions, db_data, snap7_buffers, snap7_checksums, workerVars,
                   current_checksum, observe, ext_pending, int_pending, torn, callGhost>>
    /\ UNCHANGED engineVars
    /\ halt' = IF _running \/ halt.passes >= 2 THEN halt
               ELSE [halt EXCEPT !.passes = @ + 1]
    /\ UNCHANGED <<_running, config, server, _sync_interval>>

\* lines 246-248: the lock was busy, the cycle is skipped
SyncSkip ==
    /\ sync_pc = "tick"
    /\ ~CanAcquire(data_lock, "sync")
    /\ sync_pc' = "skipped"
    /\ UNCHANGED <<db_definitions, db_data, snap7_buffers, snap7_checksums, data_lock,
                   workerVars, sync_i, current_checksum, observe, bridgeGhost, torn, callGhost>>
    /\ UNCHANGED engineVars
    /\ halt' = IF _running \/ halt.passes >= 2 THEN halt
               ELSE [halt EXCEPT !.passes = @ + 1]
    /\ UNCHANGED <<_running, config, server, _sync_interval>>

\* line 230: current_checksum = self._calculate_checksum(snap7_buffer)
SyncCheck ==
    /\ sync_pc = "check"
    /\ current_checksum' = _calculate_checksum(snap7_buffers[SyncDb])
    /\ sync_pc' = "copy"
    /\ UNCHANGED <<db_definitions, db_data, snap7_buffers, snap7_checksums, data_lock,
                   workerVars, sync_i, observe, bridgeGhost, torn, callGhost>>
    /\ UNCHANGED engineVars
    /\ UNCHANGED lifeVars

NextDb == IF sync_i < Len(db_definitions) THEN "check" ELSE "release"

\* an offset in `mine` whose byte the copy from `src` over `dst` replaces by a
\* different one, the other side not having written that offset
Discards(dst, src, mine, theirs) ==
    \E o \in mine \ theirs : dst[o + 1] # src[o + 1]

\* lines 231-241: compare with the recorded checksum and copy one way
SyncCopy ==
    /\ sync_pc = "copy"
    /\ LET n == SyncDb
           data == db_data[n]
           snap7_buffer == snap7_buffers[n]
       IN  IF current_checksum # snap7_checksums[n]
           THEN /\ db_data' = [db_data EXCEPT ![n] = memmove(data, snap7_buffer, Len(data))]
                /\ snap7_checksums' = [snap7_checksums EXCEPT ![n] = current_checksum]
                /\ sync_i' = IF NextDb = "check" THEN sync_i + 1 ELSE 1
                /\ sync_pc' = NextDb
                /\ pass_dirs' = pass_dirs \cup {"in"}
                /\ sync_lost' =
                     IF Discards(data, snap7_buffer, int_pending[n], ext_pending[n])
                     THEN "int" ELSE sync_lost
                /\ UNCHANGED snap7_buffers
           ELSE /\ snap7_buffers' =
                     [snap7_buffers EXCEPT ![n] = memmove(snap7_buffer, data, Len(data))]
                /\ sync_pc' = "resum"
                /\ pass_dirs' = pass_dirs \cup {"out"}
                /\ sync_lost' =
                     IF Discards(snap7_buffer, data, ext_pending[n], int_pending[n])
                     THEN "ext" ELSE sync_lost
                /\ UNCHANGED <<db_data, snap7_checksums, sync_i>>
    /\ current_checksum' = 0
    /\ ext_pending' = [ext_pending EXCEPT ![SyncDb] = {}]
    /\ int_pending' = [int_pending EXCEPT ![SyncDb] = {}]
    /\ UNCHANGED <<db_definitions, data_lock, workerVars, observe, pass_clean, torn, callGhost>>
    /\ UNCHANGED engineVars
    /\ UNCHANGED lifeVars

\* line 243: the checksum of the snap7 buffer is recorded after the copy out
SyncResum ==
    /\ sync_pc = "resum"
    /\ snap7_checksums' =
         [snap7_checksums EXCEPT ![SyncDb] = _calculate_checksum(snap7_buffers[SyncDb])]
    /\ sync_i' = IF NextDb = "check" THEN sync_i + 1 ELSE 1
    /\ sync_pc' = NextDb
    /\ UNCHANGED <<db_definitions, db_data, snap7_buffers, data_lock, workerVars,
                   current_checksum, observe, bridgeGhost, torn, callGhost>>
    /\ UNCHANGED engineVars
    /\ UNCHANGED lifeVars

\* line 245: finally: self._data_lock.release()
SyncRelease ==
    /\ sync_pc = "release"
    /\ data_lock' = Released(data_lock)
    /\ sync_pc' = "sleep"
    /\ pass_clean' = FALSE
    /\ pass_dirs' = {}
    /\ sync_lost' = "none"
    /\ UNCHANGED <<db_definitions, db_data, snap7_buffers, snap7_checksums, workerVars,
                   sync_i, current_checksum, observe, ext_pending, int_pending, torn, callGhost>>
    /\ UNCHANGED engineVars
    /\ UNCHANGED lifeVars

\* a loop that never tests its flag
LoopForever(flag) == TRUE

\* line 185: `while self._running:`
LoopGoesOn(flag) == flag

\* sync_loop, line 185: the loop test; the thread ends when it fails
SyncLoop ==
    /\ sync_pc = "loop"
    /\ sync_pc' = IF LoopGoesOn(_running) THEN "tick" ELSE "exited"
    /\ UNCHANGED <<db_definitions, db_data, snap7_buffers, snap7_checksums, data_lock,
                   workerVars, sync_i, current_checksum, observe, bridgeGhost, torn, callGhost>>
    /\ UNCHANGED engineVars
    /\ UNCHANGED lifeVars

\* sync_loop: time.sleep(self._sync_interval) is over, back to the loop test
SyncSleep ==
    /\ sync_pc \in {"sleep", "skipped"}
    /\ sync_pc' = "loop"
    /\ UNCHANGED <<db_definitions, db_data, snap7_buffers, snap7_checksums, data_lock,
                   workerVars, sync_i, current_checksum, observe, bridgeGhost, torn, callGhost>>
    /\ UNCHANGED engineVars
    /\ UNCHANGED lifeVars

\* a server thread stores a client's byte into the registered buffer; it
\* takes no lock
ExtWrite(n, o, b) ==
    /\ n \in DOMAIN snap7_buffers
    /\ o < Len(snap7_buffers[n])
    /\ snap7_buffers' = [snap7_buffers EXCEPT ![n][o + 1] = b]
    /\ ext_pending' = IF b # snap7_buffers[n][o + 1]
                      THEN [ext_pending EXCEPT ![n] = @ \cup {o}]
                      ELSE ext_pending
    /\ pass_clean' = FALSE
    /\ UNCHANGED <<db_definitions, db_data, snap7_checksums, data_lock, workerVars, syncVars,
                   observe, int_pending, pass_dirs, sync_lost, torn, callGhost>>
    /\ UNCHANGED engineVars
    /\ UNCHANGED lifeVars

\* ------------------------------------------- waiting for the store lock

\* write_value was called: the thread stands before `with self._data_lock:`
WriteCall(t, req) ==
    /\ pc[t] = "idle"
    /\ pc' = [pc EXCEPT ![t] = "w_wait"]
    /\ call' = [call EXCEPT ![t] = req]
    /\ UNCHANGED <<db_definitions, db_data, snap7_buffers, snap7_checksums, data_lock,
                   packed, idx, failed, syncVars, observe, bridgeGhost, torn, callGhost>>
    /\ UNCHANGED engineVars
    /\ UNCHANGED lifeVars

\* the blocking acquire of `with self._data_lock:` returns
WriteAcquire(t) ==
    /\ pc[t] = "w_wait"
    /\ CanAcquire(data_lock, t)
    /\ data_lock' = Acquired(data_lock, t)
    /\ pc' = [pc EXCEPT ![t] = "w_body"]
    /\ UNCHANGED <<db_definitions, db_data, snap7_buffers, snap7_checksums, call,
                   packed, idx, failed, syncVars, observe, bridgeGhost, torn, callGhost>>
    /\ UNCHANGED engineVars
    /\ UNCHANGED lifeVars

ReadCall(t, req) ==
    /\ pc[t] = "idle"
    /\ pc' = [pc EXCEPT ![t] = "r_wait"]
    /\ call' = [call EXCEPT ![t] = req]
    /\ UNCHANGED <<db_definitions, db_data, snap7_buffers, snap7_checksums, data_lock,
                   packed, idx, failed, syncVars, observe, bridgeGhost, torn, callGhost>>
    /\ UNCHANGED engineVars
    /\ UNCHANGED lifeVars

ReadAcquire(t) ==
    /\ pc[t] = "r_wait"
    /\ CanAcquire(data_lock, t)
    /\ data_lock' = Acquired(data_lock, t)
    /\ pc' = [pc EXCEPT ![t] = "r_body"]
    /\ UNCHANGED <<db_definitions, db_data, snap7_buffers, snap7_checksums, call,
                   packed, idx, failed, syncVars, observe, bridgeGhost, torn, callGhost>>
    /\ UNCHANGED engineVars
    /\ UNCHANGED lifeVars

\* a thread inside the with block of write_value enters read_value for the
\* target it wrote: the RLock is acquired a second time by its owner
NestedEnter(t) ==
    /\ pc[t] = "w_exit"
    /\ CanAcquire(data_lock, t)
    /\ data_lock' = Acquired(data_lock, t)
    /\ pc' = [pc EXCEPT ![t] = "n_body"]
    /\ UNCHANGED <<db_definitions, db_data, snap7_buffers, snap7_checksums, call,
                   packed, idx, failed, syncVars, observe, bridgeGhost, torn, callGhost>>
    /\ UNCHANGED engineVars
    /\ UNCHANGED lifeVars

\* the inner read_value returns: one level of the lock is released, the
\* outer with block still holds it
NestedReturn(t) ==
    /\ pc[t] = "n_body"
    /\ data_lock' = Released(data_lock)
    /\ pc' = [pc EXCEPT ![t] = "n_exit"]
    /\ UNCHANGED <<db_definitions, db_data, snap7_buffers, snap7_checksums, call,
                   packed, idx, failed, syncVars, observe, bridgeGhost, torn, callGhost>>
    /\ UNCHANGED engineVars
    /\ UNCHANGED lifeVars

\* the outer write_value leaves its with block after the inner call
OuterExit(t) ==
    /\ pc[t] = "n_exit"
    /\ data_lock' = Released(data_lock)
    /\ pc' = [pc EXCEPT ![t] = "idle"]
    /\ call' = [call EXCEPT ![t] = NoCall]
    /\ packed' = [packed EXCEPT ![t] = <<>>]
    /\ idx' = [idx EXCEPT ![t] = 0]
    /\ failed' = [failed EXCEPT ![t] = FALSE]
    /\ UNCHANGED <<db_definitions, db_data, snap7_buffers, snap7_checksums,
                   syncVars, observe, bridgeGhost, torn, callGhost>>
    /\ UNCHANGED engineVars
    /\ UNCHANGED lifeVars

\* ------------------------------------------------------- script engine

storeVars == <<db_definitions, db_data, snap7_buffers, snap7_checksums, data_lock,
               workerVars, syncVars, observe, bridgeGhost, torn, callGhost, lifeVars>>

\* load_script: the parsed list replaces self.commands, a parse error leaves
\* it as it was and returns False
LoadScript(lines) ==
    /\ ctl_pc = "idle"
    /\ LET p == parse_script(lines)
       IN  /\ commands' = IF p.ok THEN p.commands ELSE commands
           /\ last_ctl' = [op |-> "load", ok |-> p.ok, text |-> lines]
    /\ UNCHANGED <<storeVars, running, stop_requested, has_simulator, run, ctl_pc, hist>>

\* start(): rejected, or the flags are set and one thread is created; slots
\* are the threads the specification may still create, taken in order
Start(slots) ==
    /\ ctl_pc = "idle"
    /\ IF StartAccepted(running, commands, has_simulator)
       THEN /\ \E r \in slots :
                 /\ run[r].pc = "unborn"
                 /\ \A q \in slots : q < r => run[q].pc # "unborn"
                 /\ run' = [run EXCEPT ![r].pc = "born"]
                 /\ hist' = [hist EXCEPT ![r].started_with = commands]
            /\ running' = TRUE
            /\ stop_requested' = FALSE
            /\ last_ctl' = [op |-> "start", ok |-> TRUE, text |-> <<>>]
       ELSE /\ last_ctl' = [op |-> "start", ok |-> FALSE, text |-> <<>>]
            /\ UNCHANGED <<running, stop_requested, run, hist>>
    /\ UNCHANGED <<storeVars, commands, has_simulator, ctl_pc>>

\* stop(), line 478: `if self.running:` was true
StopCheck ==
    /\ ctl_pc = "idle"
    /\ running
    /\ ctl_pc' = "stopping"
    /\ UNCHANGED <<storeVars, commands, running, stop_requested, has_simulator, run, hist,
                   last_ctl>>

\* stop(), line 480: self.stop_requested = True
StopSet ==
    /\ ctl_pc = "stopping"
    /\ stop_requested' = TRUE
    /\ ctl_pc' = "idle"
    /\ hist' = [r \in Runs |->
                  IF run[r].pc \in Executing THEN [hist[r] EXCEPT !.cancelled = TRUE]
                  ELSE hist[r]]
    /\ UNCHANGED <<storeVars, commands, running, has_simulator, run, last_ctl>>

\* _run_script, lines 437-439: self.commands is read and handed to
\* _execute_commands
RunBegin(r) ==
    /\ run[r].pc = "born"
    /\ run' = [run EXCEPT ![r].pc = "while", ![r].cmds = commands, ![r].idx = 0]
    /\ hist' = [hist EXCEPT ![r].execs = [i \in 1..Len(commands) |-> 0],
                            ![r].iters = [i \in 1..Len(commands) |-> 0],
                            ![r].last_iter = [i \in 1..Len(commands) |-> 0]]
    /\ UNCHANGED <<storeVars, commands, running, stop_requested, has_simulator, ctl_pc,
                   last_ctl>>

\* the run leaves _execute_commands: -1 returned through every level, or the
\* outermost while loop ended; its local variables are gone
Leave(st) ==
    [st EXCEPT !.pc = "after", !.stack = <<>>, !.idx = 0, !.elapsed = 0, !.polls = 0]

\* this level of _execute_commands returns idx: to the for loop of the LOOP
\* that called it, or to _run_script
ReturnIdx(st) == IF st.stack = <<>> THEN Leave(st) ELSE [st EXCEPT !.pc = "for"]

\* lines 373-379 and 426-428: the loop condition with its read of the cancel
\* flag, the skip of an empty or comment line, the return at END_LOOP
While(r) ==
    /\ run[r].pc = "while"
    /\ LET st == run[r]
           i == st.idx + 1
       IN  IF st.idx < Len(st.cmds) /\ ~stop_requested
           THEN /\ run' = [run EXCEPT ![r] =
                            CASE st.cmds[i].kind \in {"EMPTY", "COMMENT"} ->
                                   [st EXCEPT !.idx = st.idx + 1]
                              [] st.cmds[i].kind = "END_LOOP" -> ReturnIdx(st)
                              [] OTHER -> [st EXCEPT !.pc = "exec"]]
                /\ hist' = [hist EXCEPT ![r] =
                            IF st.cmds[i].kind \in {"EMPTY", "COMMENT"} THEN @
                            ELSE [@ EXCEPT !.execs[i] = @ + 1,
                                           !.late_cmds =
                                               IF hist[r].cancelled THEN @ + 1 ELSE @,
                                           !.after_missing =
                                               IF hist[r].wu_missing # {} THEN @ + 1 ELSE @]]
           ELSE /\ run' = [run EXCEPT ![r] = ReturnIdx(st)]
                /\ UNCHANGED hist
    /\ UNCHANGED <<storeVars, commands, running, stop_requested, has_simulator, ctl_pc,
                   last_ctl>>

\* lines 381-410: the command at idx is carried out.  SET runs the whole
\* write_value call, which waits for the store lock; WAIT and WAIT_UNTIL enter
\* their loops; LOOP finds its END_LOOP and enters its for loop
Exec(r) ==
    /\ run[r].pc = "exec"
    /\ LET st == run[r]
           i == st.idx + 1
           cmd == st.cmds[i]
           f == _get_field_info(db_definitions, cmd.db_number, cmd.variable_name)
           v == _parse_value(cmd.value, f.field.type)
           next == [st EXCEPT !.idx = st.idx + 1, !.pc = "while"]
       IN  CASE cmd.kind = "SET" /\ ~f.found ->
                  /\ run' = [run EXCEPT ![r] = IF EndsRun(FALSE) THEN Leave(st) ELSE next]
                  /\ hist' = [hist EXCEPT ![r].set_missing = @ \cup {i}]
                  /\ UNCHANGED db_data
             [] cmd.kind = "WAIT_UNTIL" /\ ~f.found ->
                  /\ run' = [run EXCEPT ![r] = IF EndsRun(FALSE) THEN Leave(st) ELSE next]
                  /\ hist' = [hist EXCEPT ![r].wu_missing = @ \cup {i}]
                  /\ UNCHANGED db_data
             [] cmd.kind \in {"SET", "WAIT_UNTIL"} /\ f.found /\ ~v.ok ->
                  /\ run' = [run EXCEPT ![r] = [Leave(st) EXCEPT !.exc = TRUE]]
                  /\ UNCHANGED <<hist, db_data>>
             [] cmd.kind = "SET" /\ f.found /\ v.ok ->
                  /\ CanAcquire(data_lock, "run")
                  /\ db_data' =
                       IF cmd.db_number \in DOMAIN db_data
                       THEN [db_data EXCEPT ![cmd.db_number] =
                               write_effect(@, f.field.offset, f.field.type, v.val, f.field.bit)]
                       ELSE db_data
                  /\ run' = [run EXCEPT ![r] = next]
                  /\ UNCHANGED hist
             [] cmd.kind = "WAIT_UNTIL" /\ f.found /\ v.ok ->
                  /\ run' = [run EXCEPT ![r] = [st EXCEPT !.pc = "wu", !.polls = 0]]
                  /\ UNCHANGED <<hist, db_data>>
             [] cmd.kind = "WAIT" ->
                  /\ run' = [run EXCEPT ![r] = [st EXCEPT !.pc = "wait", !.elapsed = 0]]
                  /\ UNCHANGED <<hist, db_data>>
             [] OTHER ->
                  /\ run' = [run EXCEPT ![r] =
                       [st EXCEPT !.pc = "for",
                                  !.stack = Append(@, [start |-> i,
                                                       end |-> FindLoopEnd(st.cmds, st.idx).loop_end,
                                                       iter |-> 0, count |-> cmd.n])]]
                  /\ UNCHANGED <<hist, db_data>>
    /\ UNCHANGED <<db_definitions, snap7_buffers, snap7_checksums, data_lock, workerVars,
                   syncVars, observe, bridgeGhost, torn, callGhost, commands, running,
                   stop_requested, has_simulator, ctl_pc, last_ctl, lifeVars>>

\* lines 411-424: one turn of `for iteration in range(cmd.loop_count)`: the
\* flag check, the "Iteration i/n" entry and the call that runs the body from
\* loop_start; after the last turn idx = loop_end
ForStep(r) ==
    /\ run[r].pc = "for"
    /\ LET st == run[r]
           d == Len(st.stack)
           fr == st.stack[d]
       IN  IF fr.iter < fr.count
           THEN IF stop_requested
                THEN /\ run' = [run EXCEPT ![r] = Leave(st)]
                     /\ UNCHANGED hist
                ELSE /\ run' = [run EXCEPT ![r] =
                               [st EXCEPT !.pc = "while", !.idx = fr.start,
                                          !.stack[d].iter = fr.iter + 1]]
                     /\ hist' = [hist EXCEPT ![r] =
                               [@ EXCEPT !.iters[fr.start] = @ + 1,
                                         !.last_iter[fr.start] = fr.iter + 1,
                                         !.late_iters =
                                             IF hist[r].cancelled THEN @ + 1 ELSE @]]
           ELSE /\ run' = [run EXCEPT ![r] =
                          [st EXCEPT !.pc = "while", !.idx = fr.end,
                                     !.stack = SubSeq(st.stack, 1, d - 1)]]
                /\ UNCHANGED hist
    /\ UNCHANGED <<storeVars, commands, running, stop_requested, has_simulator, ctl_pc,
                   last_ctl>>

\* _execute_wait: one turn of the 50 ms sleep loop, or its end and
\* `return not self.stop_requested`
WaitTick(r) ==
    /\ run[r].pc = "wait"
    /\ LET st == run[r]
           cmd == st.cmds[st.idx + 1]
       IN  run' = [run EXCEPT ![r] =
                    IF st.elapsed < cmd.n /\ ~stop_requested
                    THEN [st EXCEPT !.elapsed = st.elapsed + 50]
                    ELSE IF EndsRun(~stop_requested) THEN Leave(st)
                    ELSE [st EXCEPT !.idx = st.idx + 1, !.pc = "while", !.elapsed = 0]]
    /\ UNCHANGED <<storeVars, commands, running, stop_requested, has_simulator, ctl_pc,
                   hist, last_ctl>>

\* _execute_wait_until, lines 341-362: one turn of the poll loop.  The run
\* has slept polls times 50 ms since start_time; late says that more time
\* than that has passed (the thread was not scheduled at once)
WuPoll(r, late) ==
    /\ run[r].pc = "wu"
    /\ LET st == run[r]
           i == st.idx + 1
           cmd == st.cmds[i]
           f == _get_field_info(db_definitions, cmd.db_number, cmd.variable_name).field
           expected_value == _parse_value(cmd.value, f.type).val
           actual_value == read_value(db_data, cmd.db_number, f.offset, f.type, f.bit).val
           next == [st EXCEPT !.idx = st.idx + 1, !.pc = "while", !.polls = 0]
           timeout_set == cmd.timeout_ms # NoTimeout /\ cmd.timeout_ms # 0
       IN  IF stop_requested
           THEN /\ run' = [run EXCEPT ![r] = IF EndsRun(FALSE) THEN Leave(st) ELSE next]
                /\ UNCHANGED hist
           ELSE /\ CanAcquire(data_lock, "run")
                /\ IF _compare_values(actual_value, cmd.operator, expected_value)
                   THEN /\ run' = [run EXCEPT ![r] = next]
                        /\ UNCHANGED hist
                   ELSE IF timeout_set /\ (late \/ 50 * st.polls >= cmd.timeout_ms)
                   THEN /\ run' = [run EXCEPT ![r] = next]
                        /\ hist' = [hist EXCEPT ![r].timeouts = @ \cup {i}]
                   ELSE /\ run' = [run EXCEPT ![r].polls = Min(st.polls + 1, MaxPolls)]
                        /\ UNCHANGED hist
    /\ UNCHANGED <<storeVars, commands, running, stop_requested, has_simulator, ctl_pc,
                   last_ctl>>

\* _run_script, lines 440-446: the final entry of the log
After(r) ==
    /\ run[r].pc = "after"
    /\ run' = [run EXCEPT ![r].pc = "fin1"]
    /\ hist' = [hist EXCEPT ![r].outcome =
                  IF run[r].exc THEN "error"
                  ELSE IF stop_requested THEN "stopped" ELSE "completed"]
    /\ UNCHANGED <<storeVars, commands, running, stop_requested, has_simulator, ctl_pc,
                   last_ctl>>

\* finally, line 448: self.running = False
Fin1(r) ==
    /\ run[r].pc = "fin1"
    /\ running' = FALSE
    /\ run' = [run EXCEPT ![r].pc = "fin2"]
    /\ UNCHANGED <<storeVars, commands, stop_requested, has_simulator, ctl_pc, hist, last_ctl>>

\* finally, line 449: self.stop_requested = False; the thread ends
Fin2(r) ==
    /\ run[r].pc = "fin2"
    /\ stop_requested' = FALSE
    /\ run' = [run EXCEPT ![r].pc = "dead"]
    /\ UNCHANGED <<storeVars, commands, running, has_simulator, ctl_pc, hist, last_ctl>>

\* ------------------------------------------------------- specifications

\* two DBs: DB1 = BYTE A @0 (initial value 1), BYTE B @1; DB2 = BOOL F @0.0
ConfigBridge ==
    << [db_number |-> 1,
        fields |-> << Field("A", T("BYTE"), 0, NoBit, TRUE, IntV(1)),
                      Field("B", T("BYTE"), 1, NoBit, FALSE, IntV(0)) >>],
       [db_number |-> 2,
        fields |-> << Field("F", T("BOOL"), 0, 0, FALSE, BoolV(FALSE)) >>] >>

BridgeWrites ==
    { Req(1, 0, T("BYTE"), IntV(0), NoBit),
      Req(1, 0, T("WORD"), IntV(257), NoBit),
      Req(1, 1, T("WORD"), IntV(257), NoBit) }

BridgeReads ==
    { Req(1, 0, T("WORD"), IntV(0), NoBit),
      Req(2, 0, T("BOOL"), IntV(0), 0) }

ExtBytes == {0, 1}

Init == InitFrom(ConfigBridge, "bridge")

Next ==
    \/ \E t \in Threads, req \in BridgeWrites : WriteEnter(t, req)
    \/ \E t \in Threads : WriteBody(t)
    \/ \E t \in Threads : WriteStore(t)
    \/ \E t \in Threads : WriteExit(t)
    \/ \E t \in Threads, req \in BridgeReads : ReadEnter(t, req)
    \/ \E t \in Threads : ReadReturn(t)
    \/ SyncLoop
    \/ SyncAcquire
    \/ SyncSkip
    \/ SyncCheck
    \/ SyncCopy
    \/ SyncResum
    \/ SyncRelease
    \/ SyncSleep
    \/ \E n \in DOMAIN snap7_buffers, o \in 0..1, b \in ExtBytes : ExtWrite(n, o, b)

Spec == Init /\ [][Next]_vars

\* one DB of 8 bytes: WSTRING[1] Text @0, BYTE Lo @6, BYTE Hi @7 (initial 0xA5)
ConfigCalls ==
    << [db_number |-> 1,
        fields |-> << Field("Text", TN("WSTRING", 1), 0, NoBit, FALSE, StrV(<<>>)),
                      Field("Lo", T("BYTE"), 6, NoBit, FALSE, IntV(0)),
                      Field("Hi", T("BYTE"), 7, NoBit, TRUE, IntV(165)) >>] >>

\* U+1F600, a code point outside the Basic Multilingual Plane
Emoji == <<128512>>

CallWrites ==
    { Req(1, 6, T("BOOL"), BoolV(v), b) : v \in BOOLEAN, b \in 0..7 }
    \cup
    { Req(1, 8, T("BOOL"), BoolV(TRUE), 3),
      Req(1, 6, T("BOOL"), StrV(<<102, 97, 108, 115, 101>>), NoBit),
      Req(1, 6, T("BOOL"), BoolV(TRUE), NoBit),
      Req(1, 6, T("BOOL"), IntV(0), NoBit),
      Req(1, 7, T("BYTE"), IntV(300), NoBit),
      Req(1, 7, T("BYTE"), StrV(<<110, 111>>), NoBit),
      Req(1, 6, T("BYTE"), IntV(255), NoBit),
      Req(1, 8, T("BYTE"), IntV(1), NoBit),
      Req(1, 6, T("WORD"), IntV(258), NoBit),
      Req(1, 6, T("WORD"), IntV(65536), NoBit),
      Req(1, 6, T("WORD"), IntV(0 - 1), NoBit),
      Req(1, 7, T("WORD"), IntV(258), NoBit),
      Req(1, 6, T("INT"), IntV(0 - 12345), NoBit),
      Req(1, 6, T("INT"), IntV(32768), NoBit),
      Req(1, 4, T("DINT"), IntV(0 - 2), NoBit),
      Req(1, 6, T("DINT"), IntV(16909060), NoBit),
      Req(1, 4, TN("STRING", 2), StrV(<<65, 66, 67>>), NoBit),
      Req(1, 4, TN("STRING", 2), StrV(<<233>>), NoBit),
      Req(1, 0, TN("STRING", 300), StrV(<<65>>), NoBit),
      Req(1, 0, TN("WSTRING", 1), StrV(<<65>>), NoBit),
      Req(1, 0, TN("WSTRING", 1), StrV(Emoji), NoBit),
      Req(1, 2, TN("WSTRING", 1), StrV(Emoji), NoBit),
      Req(1, 0, TN("WSTRING", 1), StrV(<<55296>>), NoBit),
      Req(1, 0, TN("WSTRING", 2), StrV(Emoji \o Emoji), NoBit),
      Req(1, 0, T("LREAL"), IntV(1), NoBit),
      Req(9, 0, T("BYTE"), IntV(1), NoBit) }

CallReads == { Req(w.db, w.offset, w.type, IntV(0), w.bit) : w \in CallWrites }

InitRW == InitFrom(ConfigCalls, "calls")

NextRW ==
    \/ \E req \in CallWrites : WriteEnter("inspector", req)
    \/ WriteBody("inspector")
    \/ WriteStore("inspector")
    \/ WriteExit("inspector")
    \/ \E req \in CallReads : ReadEnter("inspector", req)
    \/ ReadReturn("inspector")

SpecRW == InitRW /\ [][NextRW]_vars

\* configurations that use every type of the size table, with fields out of
\* offset order and a second DB
SizeConfigs ==
    { << [db_number |-> 1,
          fields |-> << Field("Run", T("BOOL"), 0, 0, TRUE, BoolV(TRUE)),
                        Field("Level", T("INT"), 2, NoBit, FALSE, IntV(0)),
                        Field("Mask", T("DWORD"), 4, NoBit, FALSE, IntV(0)) >>] >>,
      << [db_number |-> 1,
          fields |-> << Field("Temp", T("REAL"), 0, NoBit, FALSE, IntV(0)),
                        Field("Stamp", T("DT"), 4, NoBit, FALSE, IntV(0)) >>] >>,
      << [db_number |-> 1,
          fields |-> << Field("Long", T("DTL"), 0, NoBit, FALSE, IntV(0)),
                        Field("Tail", T("BYTE"), 12, NoBit, TRUE, IntV(7)) >>],
         [db_number |-> 2,
          fields |-> << Field("W", T("WORD"), 0, NoBit, TRUE, IntV(513)) >>] >>,
      << [db_number |-> 1,
          fields |-> << Field("Name", TN("STRING", 2), 0, NoBit, FALSE, IntV(0)),
                        Field("Wide", TN("WSTRING", 1), 4, NoBit, FALSE, IntV(0)) >>] >>,
      << [db_number |-> 3,
          fields |-> << Field("Count", T("DINT"), 2, NoBit, FALSE, IntV(0)),
                        Field("Flag", T("BYTE"), 0, NoBit, FALSE, IntV(0)) >>] >> }

\* the tags whose handlers are modelled
PackedTags == {"BOOL", "BYTE", "WORD", "INT", "DINT", "STRING", "WSTRING"}

\* a write of 1 to, and a read of, every configured field
FieldWrites(defs) ==
    UNION { { Req(defs[i].db_number, defs[i].fields[j].offset, defs[i].fields[j].type,
                  IntV(1), defs[i].fields[j].bit) : j \in 1..Len(defs[i].fields) } :
            i \in 1..Len(defs) }

InitSize == \E defs \in SizeConfigs : InitFrom(defs, "size")

NextSize ==
    \/ \E req \in {r \in FieldWrites(db_definitions) : r.type.tag \in PackedTags} :
          WriteEnter("inspector", req)
    \/ WriteBody("inspector")
    \/ WriteStore("inspector")
    \/ WriteExit("inspector")
    \/ \E req \in {r \in FieldWrites(db_definitions) : r.type.tag \in PackedTags} :
          ReadEnter("inspector", req)
    \/ ReadReturn("inspector")
    \/ SyncLoop
    \/ SyncAcquire
    \/ SyncSkip
    \/ SyncCheck
    \/ SyncCopy
    \/ SyncResum
    \/ SyncRelease
    \/ SyncSleep
    \/ \E n \in DOMAIN snap7_buffers, b \in ExtBytes : ExtWrite(n, 0, b)

SpecSize == InitSize /\ [][NextSize]_vars

\* the lock under contention: both threads call write_value (one call ends in
\* the IndexError of the store loop) and read_value while the synchronizer
\* ticks
LockWrites ==
    { Req(1, 0, T("BYTE"), IntV(0), NoBit),
      Req(1, 1, T("WORD"), IntV(257), NoBit) }

LockReads == { Req(2, 0, T("BOOL"), IntV(0), 0) }

InitLock == InitFrom(ConfigBridge, "lock")

NextLock ==
    \/ \E t \in Threads, req \in LockWrites : WriteCall(t, req)
    \/ \E t \in Threads : WriteAcquire(t)
    \/ \E t \in Threads : WriteBody(t)
    \/ \E t \in Threads : WriteStore(t)
    \/ \E t \in Threads : WriteExit(t)
    \/ \E t \in Threads : NestedEnter(t)
    \/ \E t \in Threads : NestedReturn(t)
    \/ \E t \in Threads : OuterExit(t)
    \/ \E t \in Threads, req \in LockReads : ReadCall(t, req)
    \/ \E t \in Threads : ReadAcquire(t)
    \/ \E t \in Threads : ReadReturn(t)
    \/ SyncLoop
    \/ SyncAcquire
    \/ SyncSkip
    \/ SyncCheck
    \/ SyncCopy
    \/ SyncResum
    \/ SyncRelease
    \/ SyncSleep

\* a thread that holds the lock keeps running until it has released it, and
\* a blocked acquire returns once the lock is free often enough
LockFairness ==
    /\ \A t \in Threads :
          /\ WF_vars(WriteBody(t)) /\ WF_vars(WriteStore(t)) /\ WF_vars(WriteExit(t))
          /\ WF_vars(NestedReturn(t)) /\ WF_vars(OuterExit(t)) /\ WF_vars(ReadReturn(t))
          /\ SF_vars(WriteAcquire(t)) /\ SF_vars(ReadAcquire(t))
    /\ WF_vars(SyncCheck) /\ WF_vars(SyncCopy) /\ WF_vars(SyncResum) /\ WF_vars(SyncRelease)

SpecLock == InitLock /\ [][NextLock]_vars /\ LockFairness

\* ------------------------------------------------------------------------
\* Properties.  The size contract and the canonical forms below are those of
\* the specification (sections 3 and 4.1), stated apart from the handlers.
\* ------------------------------------------------------------------------

AllIdle == \A t \in Threads : pc[t] = "idle"

S7Tags == {"BOOL", "BYTE", "WORD", "INT", "DWORD", "DINT", "REAL", "DT", "DTL",
           "STRING", "WSTRING"}

SizeOf(type_) ==
    CASE type_.tag \in {"BOOL", "BYTE"} -> 1
      [] type_.tag \in {"WORD", "INT"} -> 2
      [] type_.tag \in {"DWORD", "DINT", "REAL"} -> 4
      [] type_.tag = "DT" -> 8
      [] type_.tag = "DTL" -> 12
      [] type_.tag = "STRING" -> type_.n + 2
      [] OTHER -> 2 * type_.n + 4

KnownTarget(store, req) == req.db \in DOMAIN store /\ req.type.tag \in S7Tags

TargetInside(store, req) ==
    KnownTarget(store, req) /\ req.offset + SizeOf(req.type) <= Len(store[req.db])

TargetOutside(store, req) ==
    KnownTarget(store, req) /\ req.offset + SizeOf(req.type) > Len(store[req.db])

SameTarget(r, w) ==
    r.db = w.db /\ r.offset = w.offset /\ r.type = w.type /\ r.bit = w.bit

\* C1: after a synchronizer pass that took the lock and during which no write
\* landed on either side, every DB's snap7 buffer equals its working buffer
\* byte for byte, whichever way the pass copied
C1_PassLeavesBuffersEqual ==
    (sync_pc = "release" /\ pass_clean)
        => \A n \in DOMAIN db_data : snap7_buffers[n] = db_data[n]

\* a clean pass that copied one DB inward and the other outward is complete
C1_Witness == sync_pc = "release" /\ pass_clean /\ pass_dirs = {"in", "out"}

\* C2: no byte an external client changed in a snap7 buffer is overwritten by
\* a working -> snap7 copy before it was copied into the working buffer
C2_ExternalWriteReachesInternal == sync_lost # "ext"

\* C3: no synchronizer pass discards a byte write_value changed in the working
\* buffer before it was published to the snap7 buffer
C3_InternalWriteReachesExternal == sync_lost # "int"

\* C9: no read_value and no synchronizer pass runs on a working buffer that
\* holds only some of the bytes of one write_value's packed value
C9_NoTornWriteObserved ==
    torn => (~InPass /\ \A t \in Threads : pc[t] # "r_body")

\* C10: a tick that finds the lock held by another thread does not wait (its
\* skip step is enabled), and the step it takes goes to the skipped branch
\* and changes no buffer, no checksum and not the lock
C10_SyncNeverWaits ==
    /\ []((sync_pc = "tick" /\ data_lock.owner \in Threads) => ENABLED SyncSkip)
    /\ [][(sync_pc = "tick" /\ data_lock.owner \in Threads /\ sync_pc' # "tick")
            => (sync_pc' = "skipped"
                /\ UNCHANGED <<db_data, snap7_buffers, snap7_checksums, data_lock>>)]_vars

\* the tick was skipped while a writer sits in its store loop
C10_Witness == sync_pc = "skipped" /\ \E t \in Threads : pc[t] = "w_store"

\* the documented BOOL literals: false / 0 / "false" / "no" / "0" and
\* true / 1 / "true" / "yes"
BoolFalseLiteral(v) ==
    \/ v.k = "bool" /\ ~v.b
    \/ v.k = "int" /\ v.n = 0
    \/ v.k = "str" /\ v.s \in {<<102, 97, 108, 115, 101>>, <<110, 111>>, <<48>>}

BoolTrueLiteral(v) ==
    \/ v.k = "bool" /\ v.b
    \/ v.k = "int" /\ v.n = 1
    \/ v.k = "str" /\ v.s \in {<<116, 114, 117, 101>>, <<121, 101, 115>>}

\* a value in the domain of the type: what the codec is documented to accept
InDomain(v, type_, bit) ==
    CASE type_.tag = "BOOL" /\ bit # NoBit -> v.k = "bool"
      [] type_.tag = "BOOL" -> BoolFalseLiteral(v) \/ BoolTrueLiteral(v)
      [] type_.tag = "BYTE" -> PyInt(v).ok
      [] type_.tag = "WORD" -> PyInt(v).ok /\ PyInt(v).n >= 0 /\ PyInt(v).n <= 65535
      [] type_.tag = "INT" -> PyInt(v).ok /\ PyInt(v).n >= 0 - 32768 /\ PyInt(v).n <= 32767
      [] type_.tag = "DINT" -> PyInt(v).ok
      [] type_.tag = "STRING" ->
           type_.n <= 254 /\ \A i \in 1..Len(Prefix(PyStr(v), type_.n)) : PyStr(v)[i] < 128
      [] type_.tag = "WSTRING" ->
           type_.n <= 16382 /\ \A i \in 1..Len(PyStr(v)) : ~IsSurrogate(PyStr(v)[i])
      [] OTHER -> FALSE

\* an integer outside the range of WORD / INT, a text that is no integer, a
\* non-ASCII STRING: what the codec is documented to reject
Rejected(v, type_) ==
    /\ type_.tag \in {"BYTE", "WORD", "INT", "DINT", "STRING", "WSTRING"}
    /\ ~InDomain(v, type_, NoBit)

Canonical(v, type_, bit) ==
    CASE type_.tag = "BOOL" /\ bit # NoBit -> BoolV(v.b)
      [] type_.tag = "BOOL" -> BoolV(BoolTrueLiteral(v))
      [] type_.tag = "BYTE" -> IntV(PyInt(v).n % 256)
      [] type_.tag \in {"WORD", "INT", "DINT"} -> IntV(PyInt(v).n)
      [] OTHER -> StrV(Prefix(PyStr(v), type_.n))

\* C4: a write_value whose target range lies inside the buffer, followed by
\* read_value at the same (db, offset, type, bit) with nothing in between,
\* reads back the canonical form of the value written
C4_WriteThenReadCanonical ==
    (/\ AllIdle
     /\ last_op.op = "read"
     /\ prev_op.op = "write"
     /\ SameTarget(last_op.req, prev_op.req)
     /\ TargetInside(db_data, prev_op.req)
     /\ InDomain(prev_op.req.value, prev_op.req.type, prev_op.req.bit))
        => last_op.val = Canonical(prev_op.req.value, prev_op.req.type, prev_op.req.bit)

\* C5: a BOOL write with bit b in 0..7 gives bit b of buffer[offset] the
\* boolean written and changes no other bit of that byte and no other byte
C5_BoolBitWriteFrame ==
    [][\A t \in Threads :
        LET c == call[t]
        IN  (/\ pc[t] = "w_body"
             /\ pc'[t] = "w_exit"
             /\ c.type.tag = "BOOL"
             /\ c.bit \in 0..7
             /\ c.value.k = "bool"
             /\ c.db \in DOMAIN db_data
             /\ c.offset < Len(db_data[c.db]))
            => /\ DOMAIN db_data' = DOMAIN db_data
               /\ \A n \in DOMAIN db_data :
                    /\ Len(db_data'[n]) = Len(db_data[n])
                    /\ \A j \in 1..Len(db_data[n]) :
                         (n # c.db \/ j # c.offset + 1) => db_data'[n][j] = db_data[n][j]
               /\ \A k \in 0..7 :
                    BitOf(db_data'[c.db][c.offset + 1], k) =
                        IF k = c.bit THEN (IF c.value.b THEN 1 ELSE 0)
                        ELSE BitOf(db_data[c.db][c.offset + 1], k)]_vars

\* bit 3 then bit 5 of the zero byte at offset 6 were set: the byte is 0x28
C5_Witness ==
    /\ AllIdle
    /\ prev_op.op = "write" /\ prev_op.req = Req(1, 6, T("BOOL"), BoolV(TRUE), 3)
    /\ last_op.op = "write" /\ last_op.req = Req(1, 6, T("BOOL"), BoolV(TRUE), 5)
    /\ db_data[1][7] = 40

\* C6: a write_value whose target range ends past the buffer raises nothing
\* and leaves every byte of the buffers as the call found them
C6_OutOfRangeWriteDropped ==
    (AllIdle /\ last_op.op = "write" /\ TargetOutside(entry, last_op.req))
        => (~last_op.raised /\ db_data = entry)

\* C7: a write_value whose value the codec rejects raises nothing, logs the
\* error and leaves every byte of the buffers as the call found them
C7_RejectedValueDropped ==
    (/\ AllIdle
     /\ last_op.op = "write"
     /\ last_op.req.db \in DOMAIN entry
     /\ Rejected(last_op.req.value, last_op.req.type))
        => (~last_op.raised /\ last_op.logged /\ db_data = entry)

\* INT 32768 was written over an in-range target and dropped
C7_Witness ==
    /\ AllIdle
    /\ last_op.op = "write"
    /\ last_op.req = Req(1, 6, T("INT"), IntV(32768), NoBit)
    /\ last_op.logged

\* the failures of a read: an unknown DB, a tag that is no type, a range that
\* ends past the buffer, bytes the codec cannot decode
ReadFails(store, req) ==
    \/ ~KnownTarget(store, req)
    \/ TargetOutside(store, req)
    \/ /\ TargetInside(store, req)
       /\ ~(req.type.tag = "BOOL" /\ req.bit # NoBit)
       /\ ~unpack_value(Slice(store[req.db], req.offset, req.offset + SizeOf(req.type)),
                        req.type).ok

\* C8: read_value raises nothing, changes no buffer, returns "<err>" on every
\* failure and has released the lock when it returns
C8_ReadNeverRaises ==
    (AllIdle /\ last_op.op = "read")
        => /\ ~last_op.raised
           /\ db_data = entry
           /\ snap7_buffers = InitialData(db_definitions)
           /\ data_lock.owner = "none"
           /\ ReadFails(entry, last_op.req) => last_op.val = ERR

\* an in-range WSTRING read failed in the codec and returned the sentinel
C8_Witness ==
    /\ AllIdle
    /\ last_op.op = "read"
    /\ last_op.req.type.tag = "WSTRING"
    /\ TargetInside(db_data, last_op.req)
    /\ last_op.val = ERR

MaxEnd(fields) ==
    LET ends == {fields[i].offset + SizeOf(fields[i].type) : i \in 1..Len(fields)}
    IN  CHOOSE m \in ends : \A e \in ends : e <= m

\* C12: at every moment both buffers of every DB have the length
\* max(offset + sizeof(type)) over the DB's fields, so the target range of
\* every configured field lies inside the buffer
C12_BufferLengths ==
    /\ DOMAIN db_data = DbNumbers(db_definitions)
    /\ DOMAIN snap7_buffers = DbNumbers(db_definitions)
    /\ \A i \in 1..Len(db_definitions) :
          LET d == db_definitions[i]
          IN  /\ Len(db_data[d.db_number]) = MaxEnd(d.fields)
              /\ Len(snap7_buffers[d.db_number]) = MaxEnd(d.fields)
              /\ \A j \in 1..Len(d.fields) :
                    d.fields[j].offset + SizeOf(d.fields[j].type) <= Len(db_data[d.db_number])

\* the DTL + BYTE configuration after a write, an external write and a pass
\* that copied inward: 13 bytes on both sides
C12_Witness ==
    /\ Len(db_definitions) = 2
    /\ Len(db_data[1]) = 13 /\ Len(snap7_buffers[1]) = 13
    /\ db_data[1][13] = 1
    /\ sync_pc = "release" /\ "in" \in pass_dirs

\* ------------------------------------------------- script engine: one run

\* DB 1 with Counter: INT at offset 0, no initial value
ConfigEngine ==
    << [db_number |-> 1,
        fields |-> << Field("Counter", T("INT"), 0, NoBit, FALSE, IntV(0)) >>] >>

\* the texts "0", "1", "2", "3", "5" and "abc" of a script line
Txt0 == <<48>>
Txt1 == <<49>>
Txt2 == <<50>>
Txt3 == <<51>>
Txt5 == <<53>>
TxtAbc == <<97, 98, 99>>

\* the script of the end-to-end scenario of the specification
ScenarioScript ==
    << SetLine(1, "Counter", Txt0), LoopLine(3), SetLine(1, "Counter", Txt1), WaitLine(50),
       SetLine(1, "Counter", Txt0), EndLoopLine,
       WaitUntilLine(1, "Counter", "==", Txt0, 100) >>

\* LOOP 2 around LOOP 2, the inner body a WAIT
NestedScript ==
    << LoopLine(2), LoopLine(2), WaitLine(50), EndLoopLine, EndLoopLine,
       SetLine(1, "Counter", Txt5) >>

\* LOOP 0, a comment and an empty line
ZeroLoopScript ==
    << LoopLine(0), SetLine(1, "Counter", Txt1), EndLoopLine, CommentLine, EmptyLine,
       SetLine(1, "Counter", Txt2) >>

\* a SET of a field no DB has, then a SET of Counter
MissingSetScript == << SetLine(1, "Missing", Txt1), SetLine(1, "Counter", Txt5) >>

\* the same SET as the body of a loop
MissingSetLoopScript == << LoopLine(2), SetLine(1, "Missing", Txt1), EndLoopLine >>

\* a WAIT_UNTIL of a field no DB has, two loops deep
MissingWaitScript ==
    << LoopLine(2), LoopLine(2), WaitUntilLine(1, "Missing", "==", Txt1, NoTimeout),
       EndLoopLine, EndLoopLine, SetLine(1, "Counter", Txt5) >>

\* WAIT_UNTIL with TIMEOUT 50, with TIMEOUT 0 and without TIMEOUT
TimeoutScript ==
    << WaitUntilLine(1, "Counter", "==", Txt3, 50), SetLine(1, "Counter", Txt5) >>

TimeoutZeroScript ==
    << WaitUntilLine(1, "Counter", "==", Txt3, 0), SetLine(1, "Counter", Txt5) >>

NoTimeoutScript ==
    << WaitUntilLine(1, "Counter", ">=", Txt3, NoTimeout), SetLine(1, "Counter", Txt1) >>

\* int("abc") raises ValueError inside _execute_set
BadValueScript == << SetLine(1, "Counter", TxtAbc), SetLine(1, "Counter", Txt5) >>

EngineScripts ==
    { ScenarioScript, NestedScript, ZeroLoopScript, MissingSetScript, MissingSetLoopScript,
      MissingWaitScript, TimeoutScript, TimeoutZeroScript, NoTimeoutScript, BadValueScript }

\* scripts parse_script refuses
BadScripts == { <<BadLine>>, <<EndLoopLine>>, <<LoopLine(2), WaitLine(50)>> }

\* the memory inspector writes Counter := 3
EngineWrite == Req(1, 0, T("INT"), IntV(3), NoBit)

InitEngine == InitFrom(ConfigEngine, "engine")

\* one engine, one run of a script loaded before it starts, the inspector
\* writing to the same store
NextEngine ==
    \/ \E lines \in EngineScripts \cup BadScripts : ~running /\ LoadScript(lines)
    \/ Start({1})
    \/ StopCheck
    \/ StopSet
    \/ \E r \in Runs : RunBegin(r)
    \/ \E r \in Runs : While(r)
    \/ \E r \in Runs : Exec(r)
    \/ \E r \in Runs : ForStep(r)
    \/ \E r \in Runs : WaitTick(r)
    \/ \E r \in Runs, late \in BOOLEAN : WuPoll(r, late)
    \/ \E r \in Runs : After(r)
    \/ \E r \in Runs : Fin1(r)
    \/ \E r \in Runs : Fin2(r)
    \/ WriteEnter("inspector", EngineWrite)
    \/ WriteBody("inspector")
    \/ WriteStore("inspector")
    \/ WriteExit("inspector")

SpecEngine == InitEngine /\ [][NextEngine]_vars

\* ---------------------------------------------------------------- C17

\* thread r is at a SET whose (db, name) resolves to no field
AtMissingSet(r) ==
    /\ run[r].pc = "exec"
    /\ run[r].cmds[run[r].idx + 1].kind = "SET"
    /\ ~_get_field_info(db_definitions, run[r].cmds[run[r].idx + 1].db_number,
                        run[r].cmds[run[r].idx + 1].variable_name).found

\* C17: a SET command whose (db, name) resolves to no field logs an error and
\* execution continues with the next command of the script: the step that
\* carries out such a SET leaves the run in the command loop at the next
\* index, with the error logged
C17_SetMissingContinues ==
    [][\A r \in Runs :
          AtMissingSet(r) /\ run'[r] # run[r] =>
              /\ run'[r].pc = "while"
              /\ run'[r].idx = run[r].idx + 1
              /\ run[r].idx + 1 \in hist'[r].set_missing]_vars

\* ---------------------------------------------------------------- C13

\* thread r has left _execute_commands
Ended(r) == run[r].pc \in {"after", "fin1", "fin2", "dead"}

\* the LOOP commands that enclose position i of a balanced command list
RECURSIVE OpenLoops(_, _, _, _)
OpenLoops(cmds, i, k, open) ==
    IF k >= i THEN open
    ELSE OpenLoops(cmds, i, k + 1,
                   CASE cmds[k].kind = "LOOP" -> Append(open, k)
                     [] cmds[k].kind = "END_LOOP" -> SubSeq(open, 1, Len(open) - 1)
                     [] OTHER -> open)

Enclosing(cmds, i) == OpenLoops(cmds, i, 1, <<>>)

\* the product of the counts of the loops around position i
RECURSIVE CountProduct(_, _)
CountProduct(cmds, open) ==
    IF open = <<>> THEN 1 ELSE cmds[Head(open)].n * CountProduct(cmds, Tail(open))

Expected(cmds, i) == CountProduct(cmds, Enclosing(cmds, i))

\* a run that was not cancelled, raised no exception and met no WAIT_UNTIL of
\* an unknown field
Undisturbed(r) ==
    /\ Ended(r)
    /\ ~hist[r].cancelled
    /\ hist[r].outcome \in {"none", "completed"}
    /\ ~run[r].exc
    /\ hist[r].wu_missing = {}

\* position i is a LOOP, lies inside one, or follows an END_LOOP
LoopPosition(cmds, i) ==
    \/ cmds[i].kind = "LOOP"
    \/ Enclosing(cmds, i) # <<>>
    \/ i > 1 /\ cmds[i - 1].kind = "END_LOOP"

\* what the log and the counters of an ended run r show about its loops
LoopCounts(r) ==
    \A i \in 1..Len(run[r].cmds) :
        LET cmd == run[r].cmds[i]
        IN  LoopPosition(run[r].cmds, i) =>
              /\ cmd.kind \in {"SET", "WAIT", "WAIT_UNTIL", "LOOP"} =>
                    hist[r].execs[i] = Expected(run[r].cmds, i)
              /\ cmd.kind = "LOOP" =>
                    /\ hist[r].iters[i] = cmd.n * Expected(run[r].cmds, i)
                    /\ hist[r].last_iter[i] = IF hist[r].iters[i] = 0 THEN 0 ELSE cmd.n

\* C13: in a run that is not cancelled the body of a LOOP n is executed n
\* times each time the LOOP is reached, so a command inside nested loops is
\* executed the product of their counts; every iteration logs one
\* "Iteration i/n" entry, the last one numbered n; and the command after the
\* matching END_LOOP is executed
C13_LoopCounts == \A r \in Runs : Undisturbed(r) => LoopCounts(r)

\* the same for the runs in which every SET names a field of the configuration
LoopCountsWhenResolved ==
    \A r \in Runs : Undisturbed(r) /\ hist[r].set_missing = {} => LoopCounts(r)

\* a nested run that ended undisturbed: 2 outer and 4 inner iterations
NestedRunEnded ==
    /\ run[1].cmds = parse_script(NestedScript).commands
    /\ Undisturbed(1)
    /\ hist[1].iters[1] = 2 /\ hist[1].iters[2] = 4 /\ hist[1].execs[3] = 4
    /\ hist[1].execs[6] = 1

\* ---------------------------------------------------------------- C18

\* C18: a WAIT_UNTIL command whose (db, name) resolves to no field logs an
\* error and ends the run, at any loop nesting depth: once the error is
\* logged the thread is out of _execute_commands, no command began after it,
\* no command later in the script was ever executed and each loop around it
\* logged a single iteration
C18_WaitUntilMissingEndsRun ==
    \A r \in Runs :
        \A i \in hist[r].wu_missing :
            /\ Ended(r)
            /\ run[r].stack = <<>>
            /\ hist[r].after_missing = 0
            /\ \A j \in (i + 1)..Len(run[r].cmds) : hist[r].execs[j] = 0
            /\ \A k \in 1..Len(Enclosing(run[r].cmds, i)) :
                   hist[r].iters[Enclosing(run[r].cmds, i)[k]] = 1

\* the run of MissingWaitScript has ended at its WAIT_UNTIL, two loops deep
C18_Witness ==
    /\ run[1].pc = "dead"
    /\ hist[1].wu_missing = {3}
    /\ Len(Enclosing(run[1].cmds, 3)) = 2
    /\ hist[1].execs = <<1, 1, 1, 0, 0, 0>>
    /\ ~running

\* ---------------------------------------------------------------- C19

\* thread r is polling a WAIT_UNTIL that carries a TIMEOUT clause
PollingWithTimeout(r) ==
    /\ run[r].pc = "wu"
    /\ run[r].cmds[run[r].idx + 1].timeout_ms # NoTimeout

\* the predicate of the WAIT_UNTIL thread r is at, on the store as it is
PredicateHolds(r) ==
    LET cmd == run[r].cmds[run[r].idx + 1]
        f == _get_field_info(db_definitions, cmd.db_number, cmd.variable_name).field
    IN  _compare_values(read_value(db_data, cmd.db_number, f.offset, f.type, f.bit).val,
                        cmd.operator, _parse_value(cmd.value, f.type).val)

\* the step of thread r that logs TIMEOUT: the predicate was evaluated and
\* is false, the run goes on with the next command, nothing is raised and
\* the run is not cancelled by it
TimeoutStep(r) ==
    hist'[r].timeouts # hist[r].timeouts =>
        /\ run[r].pc = "wu"
        /\ ~PredicateHolds(r)
        /\ run'[r].pc = "while"
        /\ run'[r].idx = run[r].idx + 1
        /\ ~run'[r].exc
        /\ stop_requested' = stop_requested

\* a WAIT_UNTIL still polling after k sleeps of 50 ms made its previous
\* check before its timeout had elapsed
StillPollingInTime(r) ==
    PollingWithTimeout(r) /\ run[r].polls >= 1 =>
        50 * (run[r].polls - 1) < run[r].cmds[run[r].idx + 1].timeout_ms

\* C19: a WAIT_UNTIL whose TIMEOUT elapses before the predicate holds logs a
\* timeout and the command after it is executed next, the run being neither
\* stopped nor errored, and the predicate is evaluated before the timeout is
\* applied: no WAIT_UNTIL with a TIMEOUT is still polling after a check at
\* which its timeout had elapsed, and every step that logs a timeout found
\* the predicate false and continues the run
C19_TimeoutContinues ==
    /\ [](\A r \in Runs : StillPollingInTime(r))
    /\ [][\A r \in Runs : TimeoutStep(r)]_vars

\* the same for the WAIT_UNTIL commands whose TIMEOUT is not 0
TimeoutContinuesWhenPositive ==
    /\ [](\A r \in Runs :
            run[r].pc = "wu" /\ run[r].cmds[run[r].idx + 1].timeout_ms > 0 =>
                StillPollingInTime(r))
    /\ [][\A r \in Runs : TimeoutStep(r)]_vars

\* the run of TimeoutScript logged its timeout and executed the SET after it
TimeoutRunEnded ==
    /\ run[1].cmds = parse_script(TimeoutScript).commands
    /\ hist[1].timeouts = {1}
    /\ hist[1].execs = <<1, 1>>
    /\ hist[1].outcome = "completed"

\* ---------------------------------------------------------------- C20

InitParse == InitFrom(ConfigEngine, "parse")

\* load_script applied to the script file chosen at the start
LoadPending == last_ctl.op = "none" /\ LoadScript(last_ctl.text)

NextParse == LoadPending

SpecParse == InitParse /\ [][NextParse]_vars

\* LOOP lines minus END_LOOP lines among the first k lines
Depth(lines, k) ==
    Cardinality({j \in 1..k : lines[j].kind = "LOOP"})
        - Cardinality({j \in 1..k : lines[j].kind = "END_LOOP"})

\* LOOP / END_LOOP properly nested and balanced
Balanced(lines) ==
    /\ \A k \in 1..Len(lines) : Depth(lines, k) >= 0
    /\ Depth(lines, Len(lines)) = 0

\* the END_LOOP that closes the LOOP at position i of a balanced list: the
\* first later position where the depth is back to what it was before i
MatchingEnd(lines, i) ==
    CHOOSE e \in (i + 1)..Len(lines) :
        /\ Depth(lines, e) = Depth(lines, i - 1)
        /\ \A k \in i..(e - 1) : Depth(lines, k) > Depth(lines, i - 1)

\* C20: parse_script raises for an unknown command, for an END_LOOP with no
\* open LOOP and for a LOOP never closed, so load_script succeeds exactly for
\* the files without an unknown line whose LOOP / END_LOOP are balanced; the
\* list it returns is balanced, and for every LOOP in it the scan of the
\* executor stops with depth 0 just after the matching END_LOOP
C20_ParsedLoopsBalanced ==
    last_ctl.op = "load" =>
        /\ last_ctl.ok <=>
              /\ \A j \in 1..Len(last_ctl.text) : last_ctl.text[j].kind # "BAD"
              /\ Balanced(last_ctl.text)
        /\ ~last_ctl.ok => commands = <<>>
        /\ last_ctl.ok =>
              /\ Len(commands) = Len(last_ctl.text)
              /\ Balanced(commands)
              /\ \A i \in 1..Len(commands) :
                     commands[i].kind = "LOOP" =>
                         /\ FindLoopEnd(commands, i - 1).loop_depth = 0
                         /\ FindLoopEnd(commands, i - 1).loop_end = MatchingEnd(commands, i)
                         /\ commands[MatchingEnd(commands, i)].kind = "END_LOOP"

\* a file with a loop inside a loop was loaded, and the scans find both ends
C20_Witness ==
    /\ last_ctl = [op |-> "load", ok |-> TRUE,
                   text |-> <<LoopLine(2), LoopLine(2), WaitLine(50), EndLoopLine, EndLoopLine>>]
    /\ Len(commands) = 5
    /\ FindLoopEnd(commands, 0).loop_end = 5
    /\ FindLoopEnd(commands, 1).loop_end = 4

\* ------------------------------------------- script engine: start and stop

\* a WAIT_UNTIL that only a cancel ends, then a SET
BlockedScript ==
    << WaitUntilLine(1, "Counter", ">=", Txt3, NoTimeout), SetLine(1, "Counter", Txt2) >>

\* a loop of two WAITs, then a SET
WaitLoopScript == << LoopLine(2), WaitLine(50), EndLoopLine, SetLine(1, "Counter", Txt1) >>

CtlScripts == { BlockedScript, WaitLoopScript, BadValueScript, <<BadLine>> }

InitCtl == InitFrom(ConfigEngine, "ctl")

\* the controls of the script panel, called one at a time from the GUI
\* thread, and up to MaxRuns execution threads one after another.  A script
\* is loaded into an engine that reports no run in progress
NextCtl ==
    \/ \E lines \in CtlScripts : ~running /\ LoadScript(lines)
    \/ Start(Runs)
    \/ StopCheck
    \/ StopSet
    \/ \E r \in Runs : RunBegin(r)
    \/ \E r \in Runs : While(r)
    \/ \E r \in Runs : Exec(r)
    \/ \E r \in Runs : ForStep(r)
    \/ \E r \in Runs : WaitTick(r)
    \/ \E r \in Runs, late \in BOOLEAN : WuPoll(r, late)
    \/ \E r \in Runs : After(r)
    \/ \E r \in Runs : Fin1(r)
    \/ \E r \in Runs : Fin2(r)

SpecCtl == InitCtl /\ [][NextCtl]_vars

\* ---------------------------------------------------------------- C14

\* C14: once the cancel flag is set while thread r executes commands, the
\* run ends: no command passes the flag check of the command loop after that
\* (only the command already past it is carried out), no loop iteration
\* starts, and the run is reported as stopped
C14_CancelEndsRun ==
    \A r \in Runs :
        hist[r].cancelled /\ ~run[r].exc =>
            /\ hist[r].late_cmds = 0
            /\ hist[r].late_iters = 0
            /\ hist[r].outcome \in {"none", "stopped"}

\* the same for the first thread of an engine, which no earlier thread of
\* that engine can interfere with
CancelEndsFirstRun ==
    \A r \in Runs :
        (hist[r].cancelled /\ ~run[r].exc /\ \A q \in Runs \ {r} : run[q].pc = "unborn") =>
            /\ hist[r].late_cmds = 0
            /\ hist[r].late_iters = 0
            /\ hist[r].outcome \in {"none", "stopped"}

\* a cancelled first run that was inside its loop and was reported stopped
FirstRunStopped ==
    /\ run[1].pc = "dead" /\ run[2].pc = "unborn"
    /\ hist[1].cancelled
    /\ hist[1].iters = <<1, 0, 0, 0>>
    /\ hist[1].outcome = "stopped"

\* ---------------------------------------------------------------- C15

\* start() created thread r in this step
StartedNow(r) == run[r].pc = "unborn" /\ run'[r].pc = "born"

\* this step is a call of start()
StartStep ==
    \/ \E r \in Runs : StartedNow(r)
    \/ last_ctl' # last_ctl /\ last_ctl'.op = "start"

\* C15: start() is rejected, starting no thread and leaving running, the
\* cancel flag and the command list unchanged, when a run is in progress,
\* when no commands are loaded or when no simulator is attached; otherwise it
\* returns True and starts exactly one thread; and at no time do two threads
\* execute script commands
C15_StartRejections ==
    /\ [](Cardinality({r \in Runs : run[r].pc \in Executing}) <= 1)
    /\ [][StartStep =>
            IF running \/ commands = <<>> \/ ~has_simulator
            THEN /\ last_ctl' = [op |-> "start", ok |-> FALSE, text |-> <<>>]
                 /\ UNCHANGED <<running, stop_requested, commands, run>>
            ELSE /\ last_ctl' = [op |-> "start", ok |-> TRUE, text |-> <<>>]
                 /\ running'
                 /\ Cardinality({r \in Runs : StartedNow(r)}) = 1
                 /\ \A r \in Runs : ~StartedNow(r) => run'[r] = run[r]
                 /\ UNCHANGED commands]_vars

\* a start() was rejected during the second run of the engine
C15_Witness ==
    /\ last_ctl = [op |-> "start", ok |-> FALSE, text |-> <<>>]
    /\ running /\ commands # <<>> /\ has_simulator
    /\ run[1].pc = "dead"
    /\ run[2].pc = "wu"

\* ---------------------------------------------------------------- C16

\* a run has ended and no thread of the engine is alive, no call in progress
AllRunsOver ==
    /\ \E r \in Runs : run[r].pc = "dead"
    /\ \A r \in Runs : run[r].pc \in {"unborn", "dead"}
    /\ ctl_pc = "idle"

\* C16: every run that ends, by reaching the end of the script, by
\* cancellation or by an exception, leaves the engine idle: is_running() is
\* False and the cancel flag is cleared
C16_RunEndsIdle == AllRunsOver => ~running /\ ~stop_requested

\* what holds of the flags after a run has ended: running is False, so a
\* start() with loaded commands is accepted and a load_script can be made
RunEndsNotRunning ==
    AllRunsOver =>
        /\ ~running
        /\ StartAccepted(running, commands, has_simulator) <=> (commands # <<>> /\ has_simulator)
        /\ \A lines \in CtlScripts : ENABLED LoadScript(lines)

\* runs ended in each of the three ways, the last one with the engine idle
RunsEndedEachWay ==
    /\ AllRunsOver
    /\ {hist[r].outcome : r \in Runs} \in {{"completed", "error"}, {"stopped", "error"},
                                             {"completed", "stopped"}}
    /\ ~running /\ ~stop_requested

\* ---------------------------------------------------------------- C21

\* the last call of the engine was a load_script that returned False
LoadJustFailed == last_ctl.op = "load" /\ ~last_ctl.ok

\* C21: a script rejected during load is not runnable: a start() that
\* follows a load_script that returned False returns False and starts no
\* thread
C21_RejectedLoadNotRunnable ==
    [][LoadJustFailed /\ StartStep =>
          /\ ~last_ctl'.ok
          /\ \A r \in Runs : ~StartedNow(r)]_vars

\* the same for an engine into which no script was loaded before, as the
\* script panel creates one for every file it loads
RejectedLoadOnNewEngine ==
    [][LoadJustFailed /\ commands = <<>> /\ StartStep =>
          /\ ~last_ctl'.ok
          /\ \A r \in Runs : ~StartedNow(r)]_vars

\* ---------------------------------------------------------------- C22

\* a WAIT_UNTIL with TIMEOUT 50, then a SET
PollScript ==
    << WaitUntilLine(1, "Counter", "==", Txt3, 50), SetLine(1, "Counter", Txt1) >>

\* a loop of two WAITs
ShortLoopScript == << LoopLine(2), WaitLine(50), EndLoopLine >>

LoadScripts == { PollScript, ShortLoopScript, <<BadLine>> }

InitLoad == InitFrom(ConfigEngine, "load")

\* one engine and one run of it, with load_script called at any moment,
\* also while the run is in progress
NextLoad ==
    \/ \E lines \in LoadScripts : LoadScript(lines)
    \/ Start({1})
    \/ \E r \in Runs : RunBegin(r)
    \/ \E r \in Runs : While(r)
    \/ \E r \in Runs : Exec(r)
    \/ \E r \in Runs : ForStep(r)
    \/ \E r \in Runs : WaitTick(r)
    \/ \E r \in Runs, late \in BOOLEAN : WuPoll(r, late)
    \/ \E r \in Runs : After(r)
    \/ \E r \in Runs : Fin1(r)
    \/ \E r \in Runs : Fin2(r)

SpecLoad == InitLoad /\ [][NextLoad]_vars

\* C22: the command list of a run is immutable while the run lasts: the
\* commands a run executes are those that were loaded when start() began the
\* run, whatever load_script calls are made while it is in progress
C22_RunCommandsImmutable ==
    \A r \in Runs :
        run[r].pc \notin {"unborn", "born"} => run[r].cmds = hist[r].started_with

\* once the thread has read self.commands, no step changes the list it
\* executes
CommandsFixedOnceRead ==
    [][\A r \in Runs :
          run[r].pc \notin {"unborn", "born"} => run'[r].cmds = run[r].cmds]_vars

\* a load replaced self.commands during a run that goes on with its own list
LoadedDuringRun ==
    /\ run[1].pc = "wait"
    /\ run[1].cmds = parse_script(ShortLoopScript).commands
    /\ hist[1].started_with = run[1].cmds
    /\ commands = parse_script(PollScript).commands
    /\ running

\* ---------------------------------------------------------------- C23

\* stop(), line 411: self._running = False
StopFlag ==
    /\ halt.pc = "idle"
    /\ _running' = FALSE
    /\ halt' = [pc |-> "draining", at |-> sync_pc, passes |-> 0]
    /\ UNCHANGED <<db_definitions, db_data, snap7_buffers, snap7_checksums, data_lock,
                   workerVars, syncVars, observe, bridgeGhost, torn, callGhost, engineVars,
                   config, server, _sync_interval>>

\* stop(), lines 414-415: the sleep of one period plus 50 ms is over and
\* self.server.stop() has returned: no client writes from here on
StopServer ==
    /\ halt.pc = "draining"
    /\ halt' = [halt EXCEPT !.pc = "stopped"]
    /\ server' = [server EXCEPT !.started = FALSE]
    /\ UNCHANGED <<db_definitions, db_data, snap7_buffers, snap7_checksums, data_lock,
                   workerVars, syncVars, observe, bridgeGhost, torn, callGhost, engineVars,
                   _running, config, _sync_interval>>

InitStop == InitFrom(ConfigEngine, "stop")

\* the synchronizer, the inspector writing, clients writing while the server
\* is up, and one call of stop()
NextStop ==
    \/ SyncLoop
    \/ SyncAcquire
    \/ SyncSkip
    \/ SyncCheck
    \/ SyncCopy
    \/ SyncResum
    \/ SyncRelease
    \/ SyncSleep
    \/ WriteEnter("inspector", EngineWrite)
    \/ WriteBody("inspector")
    \/ WriteStore("inspector")
    \/ WriteExit("inspector")
    \/ halt.pc # "stopped" /\ ExtWrite(1, 1, 1)
    \/ StopFlag
    \/ StopServer

\* the Snap7Sync thread is scheduled: each of its steps is taken in the end
StopFairness ==
    /\ WF_vars(SyncLoop) /\ WF_vars(SyncAcquire \/ SyncSkip) /\ WF_vars(SyncCheck)
    /\ WF_vars(SyncCopy) /\ WF_vars(SyncResum) /\ WF_vars(SyncRelease) /\ WF_vars(SyncSleep)

SpecStop == InitStop /\ [][NextStop]_vars /\ StopFairness

\* C23: after stop() has set the running flag to false the synchronizer
\* thread eventually leaves its loop; it starts at most one further pass
\* after the flag was set, and only if its loop test had already passed when
\* the flag changed; and once it has seen the flag it starts no pass
C23_SyncLoopLeaves ==
    /\ (~_running) ~> (sync_pc = "exited")
    /\ [](halt.passes <= 1)
    /\ [](halt.passes = 1 => halt.at = "tick")
    /\ [][sync_pc = "exited" => sync_pc' = "exited"]_vars

\* the flag was cleared between the loop test and the pass: one last pass
\* was made, with a copy, and the thread has ended
C23_Witness ==
    /\ sync_pc = "exited"
    /\ halt = [pc |-> "stopped", at |-> "tick", passes |-> 1]
    /\ ~_running
    /\ data_lock.owner = "none"

\* ====================================================================
\* The codec on its own: pack_value applied to a pair drawn at the start,
\* then unpack_value applied to the bytes it returned
\* ====================================================================

InitCodec == InitFrom(ConfigEngine, "codec")

\* packed = pack_value(value, type_); an exception of the handler is recorded
PackPending ==
    /\ observe = "codec"
    /\ last_op.op = "none"
    /\ LET p == pack_value(last_op.req.value, last_op.req.type)
       IN  /\ last_op' = [last_op EXCEPT !.op = "pack", !.raised = ~p.ok]
           /\ packed' = [packed EXCEPT !["inspector"] = p.bytes]
    /\ UNCHANGED <<db_definitions, db_data, snap7_buffers, snap7_checksums, data_lock,
                   pc, call, idx, failed, syncVars, observe, bridgeGhost, torn,
                   entry, prev_op, calls, engineVars, lifeVars>>

\* unpack_value(packed, type_) on the bytes of a pack that returned
UnpackPacked ==
    /\ observe = "codec"
    /\ last_op.op = "pack"
    /\ ~last_op.raised
    /\ LET u == unpack_value(packed["inspector"], last_op.req.type)
       IN  last_op' = [last_op EXCEPT !.op = "unpack", !.raised = ~u.ok, !.val = u.val]
    /\ UNCHANGED <<db_definitions, db_data, snap7_buffers, snap7_checksums, data_lock,
                   workerVars, syncVars, observe, bridgeGhost, torn,
                   entry, prev_op, calls, engineVars, lifeVars>>

NextCodec == PackPending \/ UnpackPacked

SpecCodec == InitCodec /\ [][NextCodec]_vars

\* the pair the codec was applied to and the bytes pack returned
Packed == observe = "codec" /\ last_op.op \in {"pack", "unpack"}
PackedOk == Packed /\ (last_op.op = "unpack" \/ ~last_op.raised)
RoundTripDone == observe = "codec" /\ last_op.op = "unpack"

\* the domain of each type: the documented BOOL literals, the integers of
\* the type's range, ASCII texts for STRING and texts without lone
\* surrogates for WSTRING
CodecDomain(v, type_) ==
    CASE type_.tag = "BOOL" -> BoolFalseLiteral(v) \/ BoolTrueLiteral(v)
      [] type_.tag = "BYTE" -> v.k = "int" /\ v.n >= 0 /\ v.n <= 255
      [] type_.tag = "WORD" -> v.k = "int" /\ v.n >= 0 /\ v.n <= 65535
      [] type_.tag = "INT" -> v.k = "int" /\ v.n >= 0 - 32768 /\ v.n <= 32767
      [] type_.tag = "DWORD" -> v.k = "int" /\ v.n >= 0
      [] type_.tag = "DINT" -> v.k = "int"
      [] type_.tag = "STRING" -> v.k = "str" /\ \A i \in 1..Len(v.s) : v.s[i] < 128
      [] type_.tag = "WSTRING" -> v.k = "str" /\ \A i \in 1..Len(v.s) : ~IsSurrogate(v.s[i])
      [] OTHER -> FALSE

\* the same integer, the boolean the literal stands for, the first n characters
CodecCanonical(v, type_) ==
    CASE type_.tag = "BOOL" -> BoolV(BoolTrueLiteral(v))
      [] type_.tag \in {"STRING", "WSTRING"} -> StrV(Prefix(v.s, type_.n))
      [] OTHER -> IntV(v.n)

\* the actual-length header of packed string bytes
ActualLenHeader(bytes, type_) ==
    IF type_.tag = "STRING" THEN bytes[2] ELSE FromBigEndian(SubSeq(bytes, 3, 4))

RoundTripIsCanonical(in_domain(_, _)) ==
    (Packed /\ in_domain(last_op.req.value, last_op.req.type)) =>
        /\ ~last_op.raised
        /\ RoundTripDone => last_op.val = CodecCanonical(last_op.req.value, last_op.req.type)
        /\ last_op.req.type.tag \in {"STRING", "WSTRING"} =>
              ActualLenHeader(packed["inspector"], last_op.req.type)
                  = Min(Len(last_op.req.value.s), last_op.req.type.n)

\* C24: for every type T and every value v of T's domain, unpack(pack(v, T), T)
\* is the canonical form of v (the same integer, the same boolean, the first
\* n characters of a text) and the actual-length header of a packed text is
\* min(len(v), n)
C24_RoundTripCanonical == RoundTripIsCanonical(CodecDomain)

\* the part of the domain on which the round trip is the canonical form:
\* booleans and 0 / 1 for BOOL, texts of the Basic Multilingual Plane
CoreDomain(v, type_) ==
    /\ CodecDomain(v, type_)
    /\ type_.tag = "BOOL" => v.k # "str"
    /\ type_.tag = "WSTRING" => \A i \in 1..Len(v.s) : v.s[i] < 65536

RoundTripOnCore == RoundTripIsCanonical(CoreDomain)

\* a text longer than n came back cut to n characters
TruncatedRoundTrip ==
    /\ RoundTripDone
    /\ last_op.req.type = TN("STRING", 2)
    /\ last_op.req.value = StrV(<<97, 98, 99>>)
    /\ last_op.val = StrV(<<97, 98>>)
    /\ packed["inspector"] = <<2, 2, 97, 98>>

\* C25: whenever pack accepts v for T, pack(v, T) has exactly sizeof(T)
\* bytes: 1, 1, 2, 2, 4, 4 for the integer atoms and BOOL, n + 2 for
\* STRING[n], 2n + 4 for WSTRING[n], whatever the length of a text
C25_PackedSize ==
    PackedOk => Len(packed["inspector"]) = SizeOf(last_op.req.type)

\* the size is exact for the atoms and for a BMP text of at least n characters
PackedSizeWhenFull ==
    (/\ PackedOk
     /\ last_op.req.type.tag \in {"STRING", "WSTRING"}
           => /\ Len(PyStr(last_op.req.value)) >= last_op.req.type.n
              /\ \A i \in 1..Len(PyStr(last_op.req.value)) : PyStr(last_op.req.value)[i] < 65536)
        => Len(packed["inspector"]) = SizeOf(last_op.req.type)

\* C26: pack of a BOOL (no bit addressing) is the single byte 0x00 for
\* false, 0, "false", "no", "0" and the single byte 0x01 for true, 1, "true",
\* "yes"
C26_BoolLiteralBytes ==
    (Packed /\ last_op.req.type.tag = "BOOL") =>
        /\ BoolFalseLiteral(last_op.req.value) => packed["inspector"] = <<0>>
        /\ BoolTrueLiteral(last_op.req.value) => packed["inspector"] = <<1>>

\* the literals that are not text pack as documented, and so do the true ones
BoolNonTextLiteralBytes ==
    (Packed /\ last_op.req.type.tag = "BOOL"
        /\ (last_op.req.value.k # "str" \/ BoolTrueLiteral(last_op.req.value))) =>
        /\ BoolFalseLiteral(last_op.req.value) => packed["inspector"] = <<0>>
        /\ BoolTrueLiteral(last_op.req.value) => packed["inspector"] = <<1>>

\* ---------------------------------------------------------------- C30

\* byte j (0-based) of DB n lies outside the target range of the request
OutsideTarget(req, n, j) ==
    n # req.db \/ j < req.offset \/ j >= req.offset + SizeOf(req.type)

WriteKeepsFrame(accepted(_)) ==
    (AllIdle /\ last_op.op = "write" /\ accepted(last_op.req)) =>
        /\ DOMAIN db_data = DOMAIN entry
        /\ \A n \in DOMAIN db_data :
             /\ Len(db_data[n]) = Len(entry[n])
             /\ \A j \in 0..(Len(db_data[n]) - 1) :
                  OutsideTarget(last_op.req, n, j) => db_data[n][j + 1] = entry[n][j + 1]

AnyWrite(req) == TRUE

\* C30: a write_value of type T at offset o changes no byte of the DB buffers
\* outside [o, o + sizeof(T)), whatever the value, WSTRING values with
\* characters outside the Basic Multilingual Plane included
C30_WriteFrame == WriteKeepsFrame(AnyWrite)

\* the value has no character outside the Basic Multilingual Plane
BmpWrite(req) == \A i \in 1..Len(PyStr(req.value)) : PyStr(req.value)[i] < 65536

\* the frame holds for every write of the model without such a character
WriteFrameOnBmp == WriteKeepsFrame(BmpWrite)

\* the write of one non-BMP character to the WSTRING[1] field at offset 0
\* has overwritten the two BYTE fields behind it
NeighboursOverwritten ==
    /\ AllIdle
    /\ last_op.op = "write"
    /\ last_op.req = Req(1, 0, TN("WSTRING", 1), StrV(Emoji), NoBit)
    /\ entry[1][7] = 0 /\ entry[1][8] = 165
    /\ db_data[1][7] = 222 /\ db_data[1][8] = 0

\* ====================================================================
\* Construction: PLCSimulator(path) called directly, or through the GUI's
\* on_load_yaml, on a document drawn at the start
\* ====================================================================

InitConstruct == InitFrom(<<>>, "construct")

\* PLCSimulator.__init__, lines 70-127, whole: load_config, one buffer per
\* definition with its initial values, _register_dbs (the served copies, the
\* checksums, register_area, the Snap7Sync thread), server.start.  The
\* ValueError of int() in calculate_db_size leaves __init__ before any of
\* the registrations
Constructing(op) ==
    LET dbs == load_config(config)
        defs == Definitions(dbs)
    IN  IF SizeRaises(dbs)
        THEN /\ last_ctl' = [op |-> op, ok |-> FALSE, text |-> <<>>]
             /\ UNCHANGED <<db_definitions, db_data, snap7_buffers, snap7_checksums,
                            sync_pc, ext_pending, int_pending, entry, _running, server>>
        ELSE /\ last_ctl' = [op |-> op, ok |-> TRUE, text |-> <<>>]
             /\ db_definitions' = defs
             /\ db_data' = InitialData(defs)
             /\ snap7_buffers' = InitialData(defs)
             /\ snap7_checksums' =
                  [n \in DbNumbers(defs) |-> _calculate_checksum(InitialData(defs)[n])]
             /\ ext_pending' = [n \in DbNumbers(defs) |-> {}]
             /\ int_pending' = [n \in DbNumbers(defs) |-> {}]
             /\ entry' = InitialData(defs)
             /\ _running' = TRUE
             /\ sync_pc' = "loop"
             /\ server' = [started |-> TRUE, areas |-> DbNumbers(defs)]

constructFrame == <<data_lock, workerVars, sync_i, current_checksum, observe, pass_clean,
                    pass_dirs, sync_lost, torn, last_op, prev_op, calls, commands, running,
                    stop_requested, has_simulator, run, ctl_pc, hist, halt, config,
                    _sync_interval>>

\* a caller constructs PLCSimulator(path)
Construct ==
    /\ observe = "construct"
    /\ last_ctl.op = "none"
    /\ Constructing("construct")
    /\ UNCHANGED constructFrame

\* gui.py on_load_yaml, lines 284-303: sanity_check_config(config), then
\* PLCSimulator(file_path); any exception ends in the error box
OnLoadYaml ==
    /\ observe \in {"construct", "values"}
    /\ last_ctl.op = "none"
    /\ IF sanity_check_config(config).ok
       THEN Constructing("on_load_yaml")
       ELSE /\ last_ctl' = [op |-> "on_load_yaml", ok |-> FALSE, text |-> <<>>]
            /\ UNCHANGED <<db_definitions, db_data, snap7_buffers, snap7_checksums,
                           sync_pc, ext_pending, int_pending, entry, _running, server>>
    /\ UNCHANGED constructFrame

NextConstruct == Construct \/ OnLoadYaml

SpecConstruct == InitConstruct /\ [][NextConstruct]_vars

\* sanity_check_config applied to a one-field document drawn at the start
InitTypes == InitFrom(<<>>, "types")

CheckPending ==
    /\ observe = "types"
    /\ last_ctl.op = "none"
    /\ last_ctl' = [op |-> "check", ok |-> sanity_check_config(config).ok, text |-> <<>>]
    /\ UNCHANGED <<storeVars, commands, running, stop_requested, has_simulator, run,
                   ctl_pc, hist>>

NextTypes == CheckPending

SpecTypes == InitTypes /\ [][NextTypes]_vars

\* ---------------------------------------------------------------- C27

\* no buffer is registered, no server and no synchronizer is started
NothingStarted ==
    /\ ~server.started
    /\ server.areas = {}
    /\ sync_pc = "unborn"
    /\ DOMAIN snap7_buffers = {}

InvalidNotConstructed(ops) ==
    (observe = "construct" /\ last_ctl.op \in ops /\ ~sanity_check_config(config).ok)
        => (~last_ctl.ok /\ NothingStarted)

\* C27: constructing a simulator from a configuration that violates the
\* validator's rules fails with an error for the caller, and no buffer is
\* registered and no server or synchronizer is started
C27_InvalidNeverConstructed == InvalidNotConstructed({"construct", "on_load_yaml"})

\* through on_load_yaml no invalid document reaches the constructor
InvalidRejectedByGui == InvalidNotConstructed({"on_load_yaml"})

\* PLCSimulator on a root without 'dbs': a running simulator with no DB
EmptySimulatorStarted ==
    /\ last_ctl = [op |-> "construct", ok |-> TRUE, text |-> <<>>]
    /\ config = NoDocument
    /\ server = [started |-> TRUE, areas |-> {}]
    /\ sync_pc = "loop"

\* PLCSimulator on two definitions of DB 1: one area, holding the second
DuplicateDbConstructed ==
    /\ last_ctl = [op |-> "construct", ok |-> TRUE, text |-> <<>>]
    /\ Len(config.dbs) = 2
    /\ config.dbs[1].db_number = 1 /\ config.dbs[2].db_number = 1
    /\ config.dbs[1].fields[1].name = NameCounter
    /\ config.dbs[2].fields[1].name = NameFlag
    /\ server = [started |-> TRUE, areas |-> {1}]
    /\ db_data[1] = <<1>>

\* ---------------------------------------------------------------- C28

BoolFieldsHaveBit(cfg) ==
    \A i \in 1..Len(cfg.dbs) : \A j \in 1..Len(cfg.dbs[i].fields) :
        Upper(cfg.dbs[i].fields[j].type) = TagText("BOOL")
            => cfg.dbs[i].fields[j].bit \in 0..7

Accepted == observe = "construct" /\ last_ctl = [op |-> "on_load_yaml", ok |-> TRUE, text |-> <<>>]

\* C28: in every configuration accepted by sanity_check_config each BOOL
\* field has a bit, and the bit is in 0..7
C28_AcceptedBoolHasBit == Accepted => BoolFieldsHaveBit(config)

\* an accepted BOOL field without bit: its initial value was written as the
\* whole byte at its offset
BoolWithoutBitAccepted ==
    /\ Accepted
    /\ Len(config.dbs) = 1
    /\ config.dbs[1].fields[1] = Field(NameFlag, TagText("BOOL"), 1, NoBit, TRUE, BoolV(TRUE))
    /\ db_data[2] = <<0, 1>>

\* an accepted BOOL field with bit 9
BoolBitNineAccepted ==
    /\ Accepted
    /\ Len(config.dbs) = 1
    /\ config.dbs[1].fields[1].bit = 9

\* ---------------------------------------------------------------- C29

\* the type-tag grammar: an atom, STRING[n] with 1 <= n <= 254 or WSTRING[n]
\* with 1 <= n <= 16382, in any letter case
InGrammar(text) ==
    \/ \E tag \in supported_types : Upper(text) = TagText(tag)
    \/ \E n \in 1..254 : Upper(text) = SizedText(TagText("STRING"), n)
    \/ \E n \in 1..16382 : Upper(text) = SizedText(TagText("WSTRING"), n)

Checked == observe = "types" /\ last_ctl.op = "check"
CheckedType == config.dbs[1].fields[1].type

\* C29: sanity_check_config rejects every field whose type is outside the
\* grammar and accepts every type of the grammar, in any letter case
C29_TypeGrammar == Checked => (last_ctl.ok <=> InGrammar(CheckedType))

\* every type of the grammar is accepted, in any letter case
GrammarAccepted == (Checked /\ InGrammar(CheckedType)) => last_ctl.ok

\* what is accepted outside the grammar is a STRING / WSTRING of any size,
\* with or without a final newline
AcceptedOutsideGrammar ==
    (Checked /\ last_ctl.ok /\ ~InGrammar(CheckedType)) =>
        \E t \in {"STRING", "WSTRING"} : \E n \in 0..16383 : \E tail \in {<<>>, <<10>>} :
            Upper(CheckedType) = SizedText(TagText(t), n) \o tail

\* lower-case string[255] was accepted
OversizedStringAccepted ==
    /\ Checked
    /\ last_ctl.ok
    /\ CheckedType = Lower(SizedText(TagText("STRING"), 255))

\* ====================================================================
\* The synchronizer publishing internal writes: the threads of the bridge
\* without any client writing
\* ====================================================================

InitPublish == InitFrom(ConfigBridge, "bridge")

NextPublish ==
    \/ \E t \in Threads, req \in BridgeWrites : WriteEnter(t, req)
    \/ \E t \in Threads : WriteBody(t)
    \/ \E t \in Threads : WriteStore(t)
    \/ \E t \in Threads : WriteExit(t)
    \/ \E t \in Threads, req \in BridgeReads : ReadEnter(t, req)
    \/ \E t \in Threads : ReadReturn(t)
    \/ SyncLoop
    \/ SyncAcquire
    \/ SyncSkip
    \/ SyncCheck
    \/ SyncCopy
    \/ SyncResum
    \/ SyncRelease
    \/ SyncSleep

SpecPublish == InitPublish /\ [][NextPublish]_vars

\* ---------------------------------------------------------------- C31

\* the external buffers hold the bytes of the internal ones
AllPublished == \A n \in DOMAIN db_data : snap7_buffers[n] = db_data[n]

\* no write_value call is in progress: every internal write made so far has
\* returned
NoWriteInProgress == \A t \in Threads : pc[t] \notin {"w_body", "w_store", "w_exit"}

\* one call of _sync_to_snap7_buffers returns: after its pass, or at once
\* because the lock was busy
PassEnds == sync_pc = "release" /\ sync_pc' = "sleep"
TickSkipped == sync_pc = "tick" /\ sync_pc' = "skipped"

\* C31: no client writing, every tick of the synchronizer that follows an
\* internal write publishes it: when a tick returns, the external buffers
\* equal the internal ones as far as the writes that have returned go, also
\* while other threads hold the store lock for reads and writes
C31_TickPublishes ==
    [][((PassEnds \/ TickSkipped) /\ NoWriteInProgress) => AllPublished']_vars

\* a tick that gets the lock publishes every write made before it
PassPublishes == [][PassEnds => (NoWriteInProgress /\ AllPublished')]_vars

\* a tick has returned without a pass while the only lock holder was a
\* reader, and a write that returned before it is still unpublished
StaleAfterTick ==
    /\ sync_pc = "skipped"
    /\ NoWriteInProgress
    /\ \E t \in Threads : pc[t] = "r_body"
    /\ ~AllPublished

\* ====================================================================
\* set_sync_interval called at any moment beside the running synchronizer
\* ====================================================================

\* set_sync_interval, lines 258-267: the two clamps, the assignment, then
\* the log entry whose int(interval_seconds * 1000) raises ValueError on NaN
\* (OverflowError on an infinity cannot happen: infinities are clamped)
SetSyncInterval(interval_seconds) ==
    /\ observe = "interval"
    /\ LET clamped == IF FloatLess(interval_seconds, Seconds(10000)) THEN Seconds(10000)
                      ELSE IF FloatLess(Seconds(5000000), interval_seconds)
                      THEN Seconds(5000000)
                      ELSE interval_seconds
       IN  /\ _sync_interval' = clamped
           /\ last_ctl' = [op |-> "set_sync_interval", ok |-> clamped.k # "nan",
                           text |-> <<>>, arg |-> interval_seconds]
    /\ UNCHANGED <<db_definitions, db_data, snap7_buffers, snap7_checksums, data_lock,
                   workerVars, syncVars, observe, bridgeGhost, torn, callGhost,
                   commands, running, stop_requested, has_simulator, run, ctl_pc, hist,
                   _running, halt, config, server>>

\* the arguments: numbers below, at and above both limits, NaN, infinities
IntervalArgs ==
    {Seconds(us) : us \in {0 - 1000000, 0, 9999, 10000, 10001, 20000, 100000, 1000000,
                           4999999, 5000000, 5000001, 60000000}}
    \cup {NaN, PosInf, NegInf}

InitInterval == InitFrom(ConfigEngine, "interval")

NextInterval ==
    \/ \E a \in IntervalArgs : SetSyncInterval(a)
    \/ SyncLoop
    \/ SyncAcquire
    \/ SyncCheck
    \/ SyncCopy
    \/ SyncResum
    \/ SyncRelease
    \/ SyncSleep

SpecInterval == InitInterval /\ [][NextInterval]_vars

\* ---------------------------------------------------------------- C32

\* a number of seconds within 10 ms and 5 s
InRange(f) == f.k = "num" /\ f.us >= 10000 /\ f.us <= 5000000

\* the argument clamped to [0.01, 5.0], for an argument that is a number or
\* an infinity
ClampOf(f) ==
    CASE f.k = "inf" -> IF f.us > 0 THEN Seconds(5000000) ELSE Seconds(10000)
      [] f.us < 10000 -> Seconds(10000)
      [] f.us > 5000000 -> Seconds(5000000)
      [] OTHER -> f

PeriodClamped(args) ==
    /\ InRange(_sync_interval)
    /\ last_ctl.op = "none" => _sync_interval = Seconds(20000)
    /\ (last_ctl.op = "set_sync_interval" /\ last_ctl.arg \in args)
           => _sync_interval = ClampOf(last_ctl.arg)

\* C32: the period is always within 10 ms and 5 s: 20 ms after construction,
\* and after any set_sync_interval calls the last argument clamped to
\* [0.01 s, 5.0 s]
C32_PeriodClamped == PeriodClamped(IntervalArgs)

\* after a call with a number or an infinity the period is that argument
\* clamped, within 10 ms and 5 s
ClampedUnlessNaN ==
    /\ (last_ctl.op = "set_sync_interval" /\ last_ctl.arg # NaN)
           => (InRange(_sync_interval) /\ _sync_interval = ClampOf(last_ctl.arg))
    /\ last_ctl.op = "none" => _sync_interval = Seconds(20000)

\* set_sync_interval(float('nan')) has raised, the period is NaN and the
\* synchronizer is about to call time.sleep on it
PeriodIsNaN ==
    /\ last_ctl.op = "set_sync_interval"
    /\ ~last_ctl.ok
    /\ _sync_interval = NaN
    /\ sync_pc = "sleep"

\* ---------------------------------------------------------------- C33

\* thread r runs line 449 in this step and clears a flag that was set
ClearsFlag(r) == run[r].pc = "fin2" /\ run'[r].pc = "dead" /\ stop_requested

\* stop() found run q in progress and set the flag for it, and q is still
\* executing its commands
StopPending(q) == hist[q].cancelled /\ run[q].pc \in Executing

\* C33: a stop request is never lost: the flag that stop() set for the run
\* in progress is cleared only by the termination of that run, never by the
\* last step of an earlier run's thread
C33_StopNeverLost ==
    [][\A r \in Runs : ClearsFlag(r) => \A q \in Runs \ {r} : ~StopPending(q)]_vars

\* the second run was told to stop, the flag is clear again and the run
\* went on to execute a further command
StopWasLost ==
    /\ run[1].pc = "dead"
    /\ StopPending(2)
    /\ ~stop_requested
    /\ hist[2].late_cmds > 0

\* as long as a single thread exists, a flag set for its run stays set until
\* that thread ends
FlagKeptForOnlyRun ==
    [][(stop_requested /\ ~stop_requested' /\ StopPending(1) /\ run[2].pc = "unborn")
          => FALSE]_vars

\* ---------------------------------------------------------------- C36

\* the run of thread r was cut short: a command named a field no DB has, an
\* exception was raised, or stop() cancelled it
CutShort(r) ==
    \/ hist[r].set_missing # {}
    \/ hist[r].wu_missing # {}
    \/ run[r].exc
    \/ hist[r].cancelled

\* C36: the engine logs "Script execution completed" only for a run that
\* executed its script to the end: a run cut short by an unknown field, by
\* any other runtime error or by cancellation is never reported as completed
C36_CompletedOnlyAtEnd ==
    \A r \in Runs : hist[r].outcome = "completed" => ~CutShort(r)

\* a run that raised is reported as an error and a cancelled one as stopped
\* or as an error, never as completed
RaisedOrCancelledNotCompleted ==
    \A r \in Runs :
        /\ run[r].exc => hist[r].outcome \in {"none", "error"}
        /\ hist[r].cancelled => hist[r].outcome \in {"none", "stopped", "error"}

\* the run of MissingSetScript ended at its first command, never executed
\* the second one and was logged as completed
MissingReportedCompleted ==
    /\ run[1].cmds = parse_script(MissingSetScript).commands
    /\ hist[1].set_missing = {1}
    /\ hist[1].execs = <<1, 0>>
    /\ hist[1].outcome = "completed"

\* ---------------------------------------------------------------- C35

\* WAIT_UNTIL DB1.Counter == 3 with TIMEOUT ms, then a SET
TimedScript(ms) ==
    << WaitUntilLine(1, "Counter", "==", Txt3, ms), SetLine(1, "Counter", Txt5) >>

\* the timeouts tried: 0 and those that elapse within MaxPolls sleeps
Timeouts == {50 * k : k \in 0..MaxPolls}

\* the memory inspector writes Counter := 1, which never makes the
\* predicate of the scripts true
OtherWrite == Req(1, 0, T("INT"), IntV(1), NoBit)

InitTimeout == InitFrom(ConfigEngine, "engine")

\* one run of a script that waits with a TIMEOUT; stop() is never called
NextTimeout ==
    \/ \E ms \in Timeouts : ~running /\ LoadScript(TimedScript(ms))
    \/ Start({1})
    \/ RunBegin(1)
    \/ While(1)
    \/ Exec(1)
    \/ \E late \in BOOLEAN : WuPoll(1, late)
    \/ After(1)
    \/ Fin1(1)
    \/ Fin2(1)
    \/ WriteEnter("inspector", OtherWrite)
    \/ WriteBody("inspector")
    \/ WriteStore("inspector")
    \/ WriteExit("inspector")

\* the script thread is scheduled and gets the store lock in the end; a
\* write_value call that holds the lock finishes
TimeoutFairness ==
    /\ SF_vars(\E late \in BOOLEAN : WuPoll(1, late))
    /\ WF_vars(WriteBody("inspector")) /\ WF_vars(WriteStore("inspector"))
    /\ WF_vars(WriteExit("inspector"))

SpecTimeout == InitTimeout /\ [][NextTimeout]_vars /\ TimeoutFairness

\* thread r is polling a WAIT_UNTIL that carries a TIMEOUT clause
PollingTimed(r) ==
    /\ run[r].pc = "wu"
    /\ run[r].cmds[run[r].idx + 1].timeout_ms # NoTimeout

\* C35: every WAIT_UNTIL that carries a TIMEOUT clause returns after
\* finitely many polls, for every timeout the grammar accepts, 0 included,
\* even if the predicate never holds and no stop is requested
C35_TimedWaitReturns == PollingTimed(1) ~> run[1].pc # "wu"

\* the same for the timeouts that are not 0
PositiveTimedWaitReturns ==
    (PollingTimed(1) /\ run[1].cmds[run[1].idx + 1].timeout_ms > 0) ~> run[1].pc # "wu"

\* a WAIT_UNTIL with TIMEOUT 0 has slept MaxPolls times and polls on
ZeroTimeoutPollsOn ==
    /\ PollingTimed(1)
    /\ run[1].cmds[run[1].idx + 1].timeout_ms = 0
    /\ run[1].polls = MaxPolls
    /\ ~stop_requested

\* ---------------------------------------------------------------- C37

\* PLCSimulator.__init__ when server.start raises (lines 118-127): the
\* buffers are built and _register_dbs has run, with the Snap7Sync thread
\* started at its end (line 150), before the try block of server.start is
\* entered; the except clause logs, shows the error box and re-raises
ConstructStartFails ==
    LET dbs == load_config(config)
        defs == Definitions(dbs)
    IN  /\ observe = "construct"
        /\ last_ctl.op = "none"
        /\ ~SizeRaises(dbs)
        /\ last_ctl' = [op |-> "construct", ok |-> FALSE, text |-> <<>>]
        /\ db_definitions' = defs
        /\ db_data' = InitialData(defs)
        /\ snap7_buffers' = InitialData(defs)
        /\ snap7_checksums' =
             [n \in DbNumbers(defs) |-> _calculate_checksum(InitialData(defs)[n])]
        /\ ext_pending' = [n \in DbNumbers(defs) |-> {}]
        /\ int_pending' = [n \in DbNumbers(defs) |-> {}]
        /\ entry' = InitialData(defs)
        /\ _running' = TRUE
        /\ sync_pc' = "loop"
        /\ server' = [started |-> FALSE, areas |-> DbNumbers(defs)]
        /\ UNCHANGED constructFrame

InitAbort == InitFrom(<<>>, "construct")

\* a construction whose server starts or fails to start, and the Snap7Sync
\* thread it leaves behind
NextAbort ==
    \/ Construct
    \/ ConstructStartFails
    \/ SyncLoop
    \/ SyncAcquire
    \/ SyncCheck
    \/ SyncCopy
    \/ SyncResum
    \/ SyncRelease
    \/ SyncSleep

SpecAbort == InitAbort /\ [][NextAbort]_vars

\* the constructor raised to its caller
ConstructRaised == last_ctl.op = "construct" /\ ~last_ctl.ok

\* C37: when the server fails to start during construction the error
\* propagates to the caller and construction aborts completely: no
\* synchronizer thread keeps running and no synchronizer pass is performed
\* for the aborted simulator
C37_AbortLeavesNoSync ==
    ConstructRaised => (~_running \/ sync_pc \in {"unborn", "exited"})

\* the error of server.start and the error of calculate_db_size both reach
\* the caller, and the second one leaves no thread behind
RaisedBeforeRegistering ==
    ConstructRaised /\ server.areas = {} /\ DOMAIN db_data = {} /\ ~_running =>
        sync_pc = "unborn"

\* the constructor raised, and the thread it started has finished a pass
\* over the buffers of the simulator that no caller holds
PassAfterAbort ==
    /\ ConstructRaised
    /\ ~server.started
    /\ _running
    /\ DOMAIN db_data # {}
    /\ sync_pc = "sleep"

\* ---------------------------------------------------------------- C38

InitDT == InitFrom(<<>>, "dt")

\* DTHandler.pack applied to the date-time chosen at the start
PackDT ==
    /\ observe = "dt"
    /\ last_op.op = "none"
    /\ LET p == DTHandler_pack(last_op.req.value)
       IN  /\ last_op' = [last_op EXCEPT !.op = "pack", !.raised = ~p.ok]
           /\ packed' = [packed EXCEPT !["inspector"] = p.bytes]
    /\ UNCHANGED <<db_definitions, db_data, snap7_buffers, snap7_checksums, data_lock,
                   pc, call, idx, failed, syncVars, observe, bridgeGhost, torn,
                   entry, prev_op, calls, engineVars, lifeVars>>

NextDT == PackDT

SpecDT == InitDT /\ [][NextDT]_vars

\* the BCD code of a number below 100
Bcd(v) == (v \div 10) * 16 + (v % 10)

\* the weekday of a date by Zeller's congruence, 1 = Sunday ... 7 = Saturday
SundayBased(value) ==
    LET m == IF value.month < 3 THEN value.month + 12 ELSE value.month
        y == IF value.month < 3 THEN value.year - 1 ELSE value.year
        h == (value.day + ((13 * (m + 1)) \div 5) + (y % 100) + ((y % 100) \div 4)
              + ((y \div 100) \div 4) + 5 * (y \div 100)) % 7
    IN  ((h + 6) % 7) + 1

\* DTHandler.pack was applied
PackedDT == observe = "dt" /\ last_op.op = "pack"

\* bytes 0..5 and the weekday nibble of the bytes b are those of value
DateAndWeekdayRight(b, value) ==
    /\ Len(b) = 8
    /\ b[1] = Bcd(value.year % 100)
    /\ b[2] = Bcd(value.month)
    /\ b[3] = Bcd(value.day)
    /\ b[4] = Bcd(value.hour)
    /\ b[5] = Bcd(value.minute)
    /\ b[6] = Bcd(value.second)
    /\ b[8] \div 16 = SundayBased(value)

\* C38: for every date-time value, any microsecond part 0..999999 included,
\* DT pack succeeds and yields exactly 8 bytes: bytes 0..5 are the BCD codes
\* of year % 100, month, day, hour, minute and second, byte 6 is the BCD
\* code of the hundredths of a second (microseconds / 10000), and the high
\* nibble of byte 7 is the weekday with 1 = Sunday ... 7 = Saturday
C38_DTPack ==
    PackedDT =>
        /\ ~last_op.raised
        /\ DateAndWeekdayRight(packed["inspector"], last_op.req.value)
        /\ packed["inspector"][7] = Bcd(last_op.req.value.microsecond \div 10000)

\* what the code does: it raises exactly for the microsecond parts from
\* 100000 on; below that the date, the time and the weekday are as stated
\* and byte 6 is the BCD code of the milliseconds
DTPackBelowTenth ==
    PackedDT =>
        /\ last_op.raised <=> last_op.req.value.microsecond >= 100000
        /\ ~last_op.raised =>
             /\ DateAndWeekdayRight(packed["inspector"], last_op.req.value)
             /\ packed["inspector"][7] = Bcd(last_op.req.value.microsecond \div 1000)

\* pack raised for a date-time with half a second and more
DTPackRaised == PackedDT /\ last_op.raised /\ last_op.req.value.microsecond = 999999

\* pack returned 0x50 as byte 6 for 50000 microseconds, five hundredths
MillisecondsInByteSix ==
    /\ PackedDT
    /\ ~last_op.raised
    /\ last_op.req.value.microsecond = 50000
    /\ packed["inspector"][7] = 80

\* ---------------------------------------------------------------- C34

InitValues == InitFrom(<<>>, "values")

\* the Load YAML button on a document whose fields carry initial values
NextValues == OnLoadYaml

SpecValues == InitValues /\ [][NextValues]_vars

\* sanity_check_config accepted the document and PLCSimulator was built
AcceptedValues ==
    observe = "values" /\ last_ctl = [op |-> "on_load_yaml", ok |-> TRUE, text |-> <<>>]

\* the boolean a BOOL value of a configuration stands for: a boolean, 0 or
\* 1, or one of the words true, false, 1, 0, yes, no in any case
LiteralTruth(v) ==
    CASE v.k = "bool" -> v.b
      [] v.k = "int" -> v.n = 1
      [] OTHER -> Lower(v.s) \in {<<116, 114, 117, 101>>, <<49>>, <<121, 101, 115>>}

\* the canonical form of the initial value of field f
InitialCanonical(f) ==
    IF f.type.tag = "BOOL" THEN BoolV(LiteralTruth(f.value))
    ELSE Canonical(f.value, f.type, f.bit)

\* the 1-based positions of the bytes of field f
BytesOf(f) == (f.offset + 1)..(f.offset + read_size(f.type))

\* the positions covered by the initialised fields of a definition
Initialised(def) ==
    UNION {BytesOf(def.fields[j]) : j \in {k \in 1..Len(def.fields) : def.fields[k].has_value}}

\* the fields with a value read back canonical, the served buffers equal the
\* working ones, every other byte is zero
InitialValuesStored ==
    /\ \A i \in 1..Len(db_definitions) : \A j \in 1..Len(db_definitions[i].fields) :
          LET n == db_definitions[i].db_number
              f == db_definitions[i].fields[j]
          IN  f.has_value =>
                read_value(db_data, n, f.offset, f.type, f.bit).val = InitialCanonical(f)
    /\ snap7_buffers = db_data
    /\ \A i \in 1..Len(db_definitions) :
          LET n == db_definitions[i].db_number
          IN  \A k \in 1..Len(db_data[n]) :
                k \notin Initialised(db_definitions[i]) => db_data[n][k] = 0

\* C34: for every configuration accepted by sanity_check_config, after
\* construction every field that carries an initial value reads back through
\* read_value as the canonical form of that value, the external buffer holds
\* the same bytes, and every byte not covered by an initialised field is zero
C34_InitialValues == AcceptedValues => InitialValuesStored

\* the value of field f is one write_value stores as the configuration means
\* it: an integer within the range of its type, a BOOL given as a boolean,
\* 0 or 1, or, for a BOOL with a bit, as a lower-case word
StoredAsMeant(f) ==
    CASE f.type.tag = "BOOL" /\ f.bit # NoBit ->
             f.value.k = "str" => f.value.s = Lower(f.value.s)
      [] f.type.tag = "BOOL" -> f.value.k # "str"
      [] OTHER -> InDomain(f.value, f.type, f.bit)

\* the same for the accepted configurations all of whose values are such
InitialValuesWhenStoredAsMeant ==
    (/\ AcceptedValues
     /\ \A i \in 1..Len(db_definitions) : \A j \in 1..Len(db_definitions[i].fields) :
           db_definitions[i].fields[j].has_value => StoredAsMeant(db_definitions[i].fields[j]))
        => InitialValuesStored

\* an accepted INT of 70000 left both of its bytes zero
OutOfRangeIntAccepted ==
    /\ AcceptedValues
    /\ Len(db_definitions) = 1
    /\ db_definitions[1].fields[1].value = IntV(70000)
    /\ db_data[1] = <<0, 0>>

\* an accepted BOOL with bit 1 and the value "TRUE" reads back False
UpperCaseTrueReadsFalse ==
    /\ AcceptedValues
    /\ Len(db_definitions) = 1
    /\ db_definitions[1].fields[1].value = StrV(<<84, 82, 85, 69>>)
    /\ read_value(db_data, 2, 0, T("BOOL"), 1).val = BoolV(FALSE)

\* an accepted BOOL without a bit and the value "false" reads back True
FalseTextReadsTrue ==
    /\ AcceptedValues
    /\ Len(db_definitions) = 1
    /\ db_definitions[1].fields[1].value = StrV(<<102, 97, 108, 115, 101>>)
    /\ read_value(db_data, 2, 0, T("BOOL"), NoBit).val = BoolV(TRUE)

\* a document of two DBs with five fields, four of them with values stored
\* as meant, was accepted and built
TwoDbsStored ==
    /\ AcceptedValues
    /\ Len(db_definitions) = 2
    /\ db_definitions[1].db_number = 1
    /\ db_definitions[2].db_number = 2
    /\ Len(db_definitions[1].fields) = 3
    /\ Len(db_definitions[2].fields) = 2
    /\ InitialValuesStored

====
